---- MODULE Spec2Model ----
(***************************************************************************)
(* Resilience and aggregation layer of the National Parks MCP server:      *)
(* ExternalAPIClient (retrying HTTP GET and failure classification), the   *)
(* weather fallback of build_weather_response, the single-provider         *)
(* handlers and the composite get_park_context.                            *)
(*                                                                         *)
(* One operation runs at a time (single synchronous call chain).  Every    *)
(* HTTP attempt is one step; the handlers continue from the value or the   *)
(* exception a provider call hands back.                                   *)
(*                                                                         *)
(* SpecDemo is the demonstration client of scripts/demo.py and its framed  *)
(* messages; SpecRace is the client accessors stepped by two threads.      *)
(***************************************************************************)
EXTENDS Integers, Sequences, FiniteSets, TLC

VARIABLES
    max_retries,   \* ceiling given to the retrying clients at construction
    ow_key,        \* settings.openweather_api_key is configured
    av_key,        \* settings.airvisual_api_key is configured
    op,            \* handler in progress ("idle" before the first call)
    pc,            \* control point inside the handler
    units,         \* units of the request ("metric" / "imperial")
    coords,        \* latitude, longitude handed to the sub-lookups
    provider,      \* provider whose ExternalAPIClient.get is in progress
    attempt,       \* RetryState.attempt of the get in progress
    reqCount,      \* HTTP attempts per provider during this operation
    lastOutcome,   \* per provider, outcome of its latest HTTP attempt
    sleeps,        \* delays slept by the current get, in order
    called,        \* provider-level calls made during this operation
    owError,       \* error caught from OpenWeather in this operation
    omError,       \* error raised by the Open-Meteo call in this operation
    ret,           \* value or exception handed back to the waiting handler
    park_details,  \* what get_park_details handed to get_park_context
    weather,       \* weather slot held by get_park_context
    outcome,       \* what the handler returned or raised
    request,       \* per provider, params of its get during this operation
    response,      \* what the tool function of the server handed back
    clients,       \* per accessor, the module-global _client (NoClient: None)
    constructions, \* per accessor, how many clients were constructed
    demo_pc,       \* control point of main() of the demonstration client
    req_id,        \* req_id of the request main() is at
    stdin,         \* bytes written to the server's stdin and not yet read
    stdout,        \* bytes written by the server and not yet read
    todo,          \* messages the server is about to write, in order
    sent,          \* messages the server has written, in order
    replies,       \* what the calls of _request returned, in order
    threads        \* per thread, where its call of a client accessor is

vars == <<max_retries, ow_key, av_key, op, pc, units, coords, provider,
          attempt, reqCount, lastOutcome, sleeps, called, owError, omError,
          ret, park_details, weather, outcome, request, response, clients,
          constructions, demo_pc, req_id, stdin, stdout, todo, sent, replies,
          threads>>

\* the state of the server process
server == <<max_retries, ow_key, av_key, op, pc, units, coords, provider,
            attempt, reqCount, lastOutcome, sleeps, called, owError, omError,
            ret, park_details, weather, outcome, request, response, clients,
            constructions>>

\* the state of the demonstration client and of its two pipes
demo == <<demo_pc, req_id, stdin, stdout, todo, sent, replies>>

\* the state of the handler in progress
handlers == <<op, pc, units, coords, provider, attempt, reqCount, lastOutcome,
              sleeps, called, owError, omError, ret, park_details, weather,
              outcome, request, response>>

----------------------------------------------------------------------------
(* Bounds *)

MaxRetries == 6

\* characters in the string value of a message on the wire
MaxText == 3

\* request identifiers used by the demonstration client
MaxId == 3

----------------------------------------------------------------------------
(* Program constants *)

DefaultMaxRetries == 2
\* a first delay of ten seconds in place of one
initial_delay_ten == 2 * 5
initial_delay == 1
\* a cap of 60 seconds in place of 30
max_delay_sixty == 2 * 30
max_delay == 30
exponential_base == 2

Providers == {"OpenWeather", "Open-Meteo", "AirVisual", "Nominatim"}

UnitSystems == {"metric", "imperial"}

ErrorKinds == {"missing_api_key", "http_error", "timeout_error",
               "network_error", "parse_error", "unknown_error"}

NoStatus == 0

----------------------------------------------------------------------------
(* Raw outcomes of one HTTP attempt *)

Statuses == {200, 503}

Bodies == {"object", "empty_object", "array", "empty_array", "not_json",
           "bad_array", "bad_object"}

\* JSON whose items cannot be formatted by the geocoding handlers: a list
\* item, or an object, whose "lat" is not a number
Unformattable == {"bad_array", "bad_object"}

Responses == [type : {"response"}, status : Statuses, body : Bodies]

TransportFailures ==
    { [type |-> t, status |-> NoStatus, body |-> "none"] :
        t \in {"timeout", "network", "other"} }

Outcomes == Responses \cup TransportFailures

NoOutcome == [type |-> "none", status |-> NoStatus, body |-> "none"]

\* the payload shapes told apart for a provider: the weather and air-quality
\* adapters only look at object or not, the geocoding handlers also read
\* the items of a list and the "lat" / "lon" strings
PayloadShapes(p) ==
    IF p = "Nominatim" THEN Bodies
    ELSE {"object", "empty_object", "array", "not_json"}

ProviderOutcomes(p) ==
    { r \in Outcomes :
        r.type = "response" =>
           /\ r.body \in PayloadShapes(p)
           /\ r.body \in Unformattable => r.status = 200 }

----------------------------------------------------------------------------
(* NPSAPIError as raised by the provider clients *)

Err(kind, message, status, details) ==
    [kind |-> kind, message |-> message, status |-> status, details |-> details]

NoError == Err("none", "", NoStatus, {})

\* f"{self.base_url}/{endpoint.lstrip('/')}" of the one endpoint each
\* provider call uses (Nominatim: /search or /reverse, by operation)
Url(p, o) ==
    CASE p = "OpenWeather" -> "openweather/weather"
      [] p = "Open-Meteo"  -> "open-meteo/forecast"
      [] p = "AirVisual"   -> "airvisual/nearest_city"
      [] p = "Nominatim"   -> IF o = "geocodeLocation" THEN "nominatim/search"
                                                       ELSE "nominatim/reverse"

HttpStatusMessage(status) ==
    CASE status = 503 -> "HTTP 503 error"
      [] OTHER        -> "HTTP error"

IsSuccessStatus(status) == status >= 200 /\ status < 300

\* _handle_response taking an unreadable 2xx body for an unknown failure
HandleResponseUnparsed(p, o, r) ==
    IF ~IsSuccessStatus(r.status)
    THEN [tag |-> "err",
          val |-> Err("http_error", HttpStatusMessage(r.status), r.status,
                      {<<"url", Url(p, o)>>})]
    ELSE IF r.body = "not_json"
    THEN [tag |-> "err",
          val |-> Err("unknown_error", "Unexpected error occurred", NoStatus,
                      {<<"url", Url(p, o)>>, <<"error", "exc">>})]
    ELSE [tag |-> "ok", val |-> r.body]

\* _handle_response raising http_error without the upstream status
HandleResponseNoStatus(p, o, r) ==
    IF ~IsSuccessStatus(r.status)
    THEN [tag |-> "err",
          val |-> Err("http_error",
                      IF r.body = "object" THEN "upstream message"
                                           ELSE HttpStatusMessage(r.status),
                      NoStatus,
                      {<<"url", Url(p, o)>>})]
    ELSE IF r.body = "not_json"
    THEN [tag |-> "err",
          val |-> Err("parse_error", "Failed to parse API response", r.status,
                      {<<"error", "exc">>, <<"response_text", "text">>})]
    ELSE [tag |-> "ok", val |-> r.body]

\* ExternalAPIClient._handle_response: a non-2xx reply raises http_error, a
\* 2xx reply whose body is not JSON raises parse_error, else the JSON is
\* returned.  The result is a tagged value: "ok" with the payload or "err"
\* with the NPSAPIError.
HandleResponse(p, o, r) ==
    IF ~IsSuccessStatus(r.status)
    THEN [tag |-> "err",
          val |-> Err("http_error",
                      IF r.body = "object" THEN "upstream message"
                                           ELSE HttpStatusMessage(r.status),
                      r.status,
                      {<<"url", Url(p, o)>>}
                        \cup (IF r.body = "object"
                              THEN {<<"message", "upstream message">>}
                              ELSE {})
                        \cup (IF r.body = "not_json"
                              THEN {<<"response_text", "text">>}
                              ELSE {}))]
    ELSE IF r.body = "not_json"
    THEN [tag |-> "err",
          val |-> Err("parse_error", "Failed to parse API response", r.status,
                      {<<"error", "exc">>, <<"response_text", "text">>})]
    ELSE [tag |-> "ok", val |-> r.body]

\* get with the timeout and network clauses exchanged
ClientGetResultSwapped(p, o, r) ==
    CASE r.type = "response" -> HandleResponse(p, o, r)
      [] r.type = "timeout"  ->
            [tag |-> "err",
             val |-> Err("network_error", "Network error occurred", NoStatus,
                         {<<"url", Url(p, o)>>, <<"error", "exc">>})]
      [] r.type = "network"  ->
            [tag |-> "err",
             val |-> Err("timeout_error", "Request timed out", NoStatus,
                         {<<"url", Url(p, o)>>})]
      [] OTHER               ->
            [tag |-> "err",
             val |-> Err("unknown_error", "Unexpected error occurred", NoStatus,
                         {<<"error", "exc">>, <<"url", Url(p, o)>>})]

\* The except clauses of ExternalAPIClient.get, applied to what
\* self.client.get finally produced.
ClientGetResult(p, o, r) ==
    CASE r.type = "response" -> HandleResponse(p, o, r)
      [] r.type = "timeout"  ->
            [tag |-> "err",
             val |-> Err("timeout_error", "Request timed out", NoStatus,
                         {<<"url", Url(p, o)>>})]
      [] r.type = "network"  ->
            [tag |-> "err",
             val |-> Err("network_error", "Network error occurred", NoStatus,
                         {<<"url", Url(p, o)>>, <<"error", "exc">>})]
      [] OTHER               ->
            [tag |-> "err",
             val |-> Err("unknown_error", "Unexpected error occurred", NoStatus,
                         {<<"error", "exc">>, <<"url", Url(p, o)>>})]

\* no client retrying
RetryEnabledNone(p) == FALSE

\* every client retrying, the one of Open-Meteo too
RetryEnabledAll(p) == TRUE

\* enable_retry of each provider's ExternalAPIClient
RetryEnabled(p) == p # "Open-Meteo"

----------------------------------------------------------------------------
(* RetryableHTTPClient with RetryConfig(max_retries, 1.0, 30.0, 2.0) *)

RECURSIVE Power(_, _)
Power(b, n) == IF n = 0 THEN 1 ELSE b * Power(b, n - 1)

Min(a, b) == IF a <= b THEN a ELSE b

\* delay before retry i+1
Delay(i) == Min(initial_delay * Power(exponential_base, i), max_delay)

IsTransient(r) == r.type \in {"timeout", "network"}

ShouldRetry(p, r, n) == RetryEnabled(p) /\ IsTransient(r) /\ n < max_retries

----------------------------------------------------------------------------
(* Values handed between the layers *)

NoRet == [tag |-> "none", val |-> "none"]

Ok(v) == [tag |-> "ok", val |-> v]

Raise(e) == [tag |-> "err", val |-> e]

\* an exception that is not an NPSAPIError
Exc == [tag |-> "exc", val |-> "exception"]

Running == [state |-> "running", val |-> "none"]

\* an exception that is not an NPSAPIError leaving a function
Failed == [state |-> "exception", val |-> "exception"]

Returned(doc) == [state |-> "returned", val |-> doc]

Raised(e) == [state |-> "raised", val |-> e]

NoDoc == [type |-> "none"]

IsObject(data) == data \in {"object", "empty_object"}

\* ErrorResponse(error=..., message=..., details=...).model_dump()
ErrorResponse(error, message, details) ==
    [error |-> error, message |-> message, details |-> details]

\* handle_generic_error(exc, context={"tool": tool})
GenericError(tool) ==
    ErrorResponse("internal_error", "An unexpected error occurred",
                  {<<"tool", tool>>})

\* handle_api_error(e)
HandleApiError(e) == ErrorResponse(e.kind, e.message, e.details)

\* handle_validation_error(e)
HandleValidationError ==
    ErrorResponse("validation_error", "Invalid request parameters",
                  {<<"errors", "list">>})

\* a tool function without its except clauses
ToolResponseEscape(o, tool) ==
    CASE o.state = "returned" -> Returned(o.val)
      [] o.state = "raised"   -> Raised(o.val)
      [] OTHER                -> Failed

\* What a tool function of the server hands back for the outcome of its
\* handler: the result, handle_api_error for an NPSAPIError,
\* handle_generic_error for any other exception
ToolResponse(o, tool) ==
    CASE o.state = "returned" -> Returned(o.val)
      [] o.state = "raised"   -> Returned(HandleApiError(o.val))
      [] OTHER                -> Returned(GenericError(tool))

----------------------------------------------------------------------------
(* Request parameters of the provider calls *)

NoRequest == {}

\* get_openweather_current (no language given)
OpenweatherParams(u) ==
    {<<"lat", "latitude">>, <<"lon", "longitude">>, <<"appid", "key">>,
     <<"units", u>>}

\* get_open_meteo_current: the unit parameters are added for imperial only
OpenMeteoParams(u) ==
    {<<"latitude", "latitude">>, <<"longitude", "longitude">>,
     <<"current", "fields">>}
      \cup (IF u = "imperial"
            THEN {<<"temperature_unit", "fahrenheit">>,
                  <<"wind_speed_unit", "mph">>}
            ELSE {})

\* get_nearest_city
AirVisualParams ==
    {<<"lat", "latitude">>, <<"lon", "longitude">>, <<"key", "key">>}

\* NominatimClient.search
SearchParams ==
    {<<"q", "query">>, <<"format", "jsonv2">>, <<"addressdetails", "1">>,
     <<"limit", "limit">>}

\* NominatimClient.reverse
ReverseParams ==
    {<<"lat", "latitude">>, <<"lon", "longitude">>, <<"format", "jsonv2">>,
     <<"addressdetails", "1">>}

----------------------------------------------------------------------------
(* Process-wide provider clients *)

\* threads of the server process that run tool functions
Threads == {"t1", "t2"}

\* a thread that is not inside a tool function
IdleThread == [pc |-> "idle", accessor |-> "none", made |-> 0, handle |-> 0]

\* get_weather_client, get_air_quality_client, get_geocode_client
Accessors == {"weather", "air_quality", "geocode"}

NoClient == 0

----------------------------------------------------------------------------
(* Normalization adapters *)

OpenweatherUnits(u) ==
    IF u = "imperial" THEN [temperature |-> "F", windSpeed |-> "mph"]
                      ELSE [temperature |-> "C", windSpeed |-> "m/s"]

\* a field read from the payload with .get: the value of a full object,
\* None for an object without it
Reading(data) == IF data = "object" THEN "value" ELSE "null"

\* "current" of _normalize_openweather
OpenweatherCurrent(data) ==
    [temperature   |-> Reading(data),
     feelsLike     |-> Reading(data),
     humidity      |-> Reading(data),
     pressure      |-> Reading(data),
     windSpeed     |-> Reading(data),
     windDirection |-> Reading(data),
     condition     |-> Reading(data),
     description   |-> Reading(data),
     timestamp     |-> Reading(data)]

\* "current" of _normalize_open_meteo
OpenMeteoCurrent(data) ==
    [temperature   |-> Reading(data),
     feelsLike     |-> Reading(data),
     humidity      |-> Reading(data),
     windSpeed     |-> Reading(data),
     windDirection |-> Reading(data),
     conditionCode |-> Reading(data),
     timestamp     |-> Reading(data)]

\* the primary adapter tagging its result as a fallback
NormalizeOpenweatherFallback(data, u, c) ==
    [location |-> c,
     units    |-> OpenweatherUnits(u),
     current  |-> OpenweatherCurrent(data),
     source   |-> [provider |-> "OpenWeather", fallback |-> TRUE]]

NormalizeOpenweather(data, u, c) ==
    [location |-> c,
     units    |-> OpenweatherUnits(u),
     current  |-> OpenweatherCurrent(data),
     source   |-> [provider |-> "OpenWeather", fallback |-> FALSE]]

\* the secondary adapter forgetting to flag the fallback
NormalizeOpenMeteoUnflagged(data, u, c) ==
    [location |-> c,
     units    |-> IF data = "object" THEN OpenweatherUnits(u)
                  ELSE [temperature |-> "C", windSpeed |-> "m/s"],
     current  |-> OpenMeteoCurrent(data),
     source   |-> [provider |-> "Open-Meteo", fallback |-> FALSE, units |-> u]]

\* current_units of a full Open-Meteo payload carries the labels of the
\* unit system that was requested; without it the defaults apply
NormalizeOpenMeteo(data, u, c) ==
    [location |-> c,
     units    |-> IF data = "object" THEN OpenweatherUnits(u)
                  ELSE [temperature |-> "C", windSpeed |-> "m/s"],
     current  |-> OpenMeteoCurrent(data),
     source   |-> [provider |-> "Open-Meteo", fallback |-> TRUE, units |-> u]]

FallbackReason == "OpenWeather unavailable"

\* the fallback result returned without the reason
WithoutFallbackReason(doc) == doc

\* response["source"]["fallbackReason"] = "OpenWeather unavailable"
WithFallbackReason(doc) ==
    [doc EXCEPT !.source =
        [provider |-> doc.source.provider, fallback |-> doc.source.fallback,
         units |-> doc.source.units, fallbackReason |-> FallbackReason]]

\* build_air_quality_response after get_nearest_city returned
NormalizeAirVisual(data, c) ==
    [location |-> c,
     current  |-> Reading(data),
     source   |-> [provider |-> "AirVisual"]]

\* search handing on a reply that is not a list as one hit
SearchResultsAny(data) ==
    CASE data = "empty_array" -> <<>>
      [] data = "bad_array"   -> <<"bad">>
      [] OTHER                -> <<"hit">>

\* NominatimClient.search: the list as received, [] for any other JSON
SearchResults(data) ==
    CASE data = "array"       -> <<"hit">>
      [] data = "bad_array"   -> <<"bad">>
      [] OTHER                -> <<>>

\* _format_geocode_results: float(item["lat"]) raises for an item it cannot
\* read
FormatGeocodeResults(results) ==
    IF \E i \in 1..Len(results) : results[i] = "bad" THEN Exc ELSE Ok(results)

\* geocode_location after client.search returned
GeocodeDocument(results) ==
    [count     |-> Len(results),
     locations |-> results,
     source    |-> [provider |-> "Nominatim"]]

NotFound ==
    [error   |-> "not_found",
     message |-> "No reverse geocode result found for the coordinates provided."]

\* reverse_geocode reading every reply but the empty object as a result
ReverseDocumentEmptyOnly(data) ==
    CASE data = "object" ->
            Returned([displayName |-> "value",
                      source |-> [provider |-> "Nominatim"]])
      [] data = "empty_object" -> Returned(NotFound)
      [] OTHER -> Failed

\* reverse_geocode after client.reverse returned: a non-object reply becomes
\* {} in NominatimClient.reverse, and an empty result is not_found
ReverseDocument(data) ==
    CASE data = "object" ->
            Returned([displayName |-> "value",
                      source |-> [provider |-> "Nominatim"]])
      [] data = "bad_object" -> Failed
      [] OTHER -> Returned(NotFound)

----------------------------------------------------------------------------
(* get_park_context helpers *)

RawLatitudes == {"missing", "null", "abc", "37"}

RawLongitudes == {"missing", "null", "abc", "0"}

None == [some |-> FALSE, v |-> 0]

Some(x) == [some |-> TRUE, v |-> x]

\* a coordinate that cannot be parsed read as zero
ParseCoordinateLenient(value) ==
    CASE value = "0"   -> Some(0)
      [] value = "37"  -> Some(37)
      [] value = "abc" -> Some(0)
      [] OTHER         -> None

\* a coordinate tested for truth, which takes 0 for absent
ParseCoordinateTruthy(value) ==
    CASE value = "37" -> Some(37)
      [] OTHER        -> None

\* _parse_coordinate: float(value), None for None or an unparseable value;
\* location.get of an absent key is None
ParseCoordinate(value) ==
    CASE value = "0"  -> Some(0)
      [] value = "37" -> Some(37)
      [] OTHER        -> None

\* _build_error
BuildError(message, context) == ErrorResponse("context_error", message, context)

ContextError ==
    BuildError("Park location coordinates are unavailable for this park.",
               {<<"parkCode", "yose">>})

\* What get_park_details can hand to get_park_context: an NPSAPIError, an
\* error document, another exception, or the details of the park
ParkErrors ==
    { Err("http_error", "HTTP 503 error", 503, {<<"url", "nps/parks">>}),
      Err("timeout_error", "Request timed out", NoStatus,
          {<<"url", "nps/parks">>}),
      Err("missing_api_key", "NPS API key not configured", NoStatus, {}) }

ParkErrorDocuments ==
    { ErrorResponse("not_found", "Park not found", {<<"parkCode", "yose">>}) }

ParkDetailsDocument(lat, lon) ==
    [name |-> "Yosemite National Park",
     location |-> [latitude |-> lat, longitude |-> lon]]

ParkDetailsOutcomes ==
    { Raise(e) : e \in ParkErrors }
      \cup { Ok(d) : d \in ParkErrorDocuments }
      \cup { Ok(ParkDetailsDocument(lat, lon)) :
               lat \in RawLatitudes, lon \in RawLongitudes }
      \cup { Exc }

IsErrorDocument(d) == "error" \in DOMAIN d

\* the composite naming longitude and latitude the other way round
ParkContextSwapped(p, c, w, a) ==
    [park |-> p, location |-> <<c[2], c[1]>>, weather |-> w, airQuality |-> a,
     contextGeneratedAt |-> "now"]

\* the composite returned by get_park_context
ParkContext(p, c, w, a) ==
    [park |-> p, location |-> c, weather |-> w, airQuality |-> a,
     contextGeneratedAt |-> "now"]

----------------------------------------------------------------------------
(* Wire framing of the demonstration client (scripts/demo.py) *)

\* characters of a string value: an ASCII letter and one that takes two
\* bytes in UTF-8
Chars == {"a", "e_acute"}

Digits == <<"0", "1", "2", "3", "4", "5", "6", "7", "8", "9">>

Whitespace == {"CR", "LF", " "}

RECURSIVE Texts(_)
\* the strings of at most n characters
Texts(n) ==
    IF n = 0 THEN {<<>>}
    ELSE Texts(n - 1)
           \cup { Append(t, ch) : t \in { u \in Texts(n - 1) : Len(u) = n - 1 },
                                  ch \in Chars }

\* a JSON-RPC message: id 0 stands for a message without "id"
Message(id, text) == [id |-> id, text |-> text]

Payloads == { Message(id, text) : id \in 0..MaxId, text \in Texts(MaxText) }

RECURSIVE Decimal(_)
\* str(n) of a natural number
Decimal(n) ==
    IF n < 10 THEN <<Digits[n + 1]>>
    ELSE Decimal(n \div 10) \o <<Digits[(n % 10) + 1]>>

DigitValue(c) == CHOOSE d \in 0..9 : Digits[d + 1] = c

IsDigits(cs) == Len(cs) > 0 /\ \A i \in 1..Len(cs) : \E d \in 0..9 : Digits[d + 1] = cs[i]

RECURSIVE ParseInt(_)
\* int(text) of a string of digits
ParseInt(cs) ==
    IF Len(cs) = 0 THEN 0
    ELSE 10 * ParseInt(SubSeq(cs, 1, Len(cs) - 1)) + DigitValue(cs[Len(cs)])

\* json.dumps(payload, separators=(",", ":"), ensure_ascii=False): the text
\* of the object, the id first when there is one
JsonDumps(m) ==
    <<"{">> \o (IF m.id = 0 THEN <<>> ELSE Decimal(m.id)) \o <<",">>
            \o m.text \o <<"}">>

\* json.loads of such a text
JsonLoads(cs) ==
    LET comma == CHOOSE i \in 1..Len(cs) : cs[i] = ","
        idText == SubSeq(cs, 2, comma - 1)
    IN  Message(IF Len(idText) = 0 THEN 0 ELSE ParseInt(idText),
                SubSeq(cs, comma + 1, Len(cs) - 1))

RECURSIVE Utf8Encode(_)
\* str.encode("utf-8")
Utf8Encode(cs) ==
    IF Len(cs) = 0 THEN <<>>
    ELSE (IF Head(cs) = "e_acute" THEN <<"C3", "A9">> ELSE <<Head(cs)>>)
           \o Utf8Encode(Tail(cs))

RECURSIVE Utf8Decode(_)
\* bytes.decode("utf-8")
Utf8Decode(bs) ==
    IF Len(bs) = 0 THEN <<>>
    ELSE IF Head(bs) = "C3" /\ Len(bs) >= 2 /\ bs[2] = "A9"
    THEN <<"e_acute">> \o Utf8Decode(SubSeq(bs, 3, Len(bs)))
    ELSE <<Head(bs)>> \o Utf8Decode(Tail(bs))

\* the header of a message that announces this many bytes
Header(n) ==
    <<"Content-Length", ":", " ">> \o Decimal(n) \o <<"CR", "LF", "CR", "LF">>

\* a frame whose Content-Length counts characters and not bytes
EncodeMessageChars(payload) ==
    Header(Len(JsonDumps(payload))) \o Utf8Encode(JsonDumps(payload))

\* _encode_message
EncodeMessage(payload) ==
    LET body == Utf8Encode(JsonDumps(payload))
    IN  Header(Len(body)) \o body

RECURSIVE Strip(_)
\* str.strip()
Strip(cs) ==
    IF Len(cs) = 0 THEN cs
    ELSE IF Head(cs) \in Whitespace THEN Strip(Tail(cs))
    ELSE IF cs[Len(cs)] \in Whitespace THEN Strip(SubSeq(cs, 1, Len(cs) - 1))
    ELSE cs

\* str.lower() of a header name
Lower(cs) ==
    [i \in 1..Len(cs) |-> IF cs[i] = "Content-Length" THEN "content-length"
                                                       ELSE cs[i]]

NoHeaders == [known |-> FALSE, length |-> <<>>]

\* headers[k.strip().lower()] = v.strip(), of which content-length is read
SetHeader(headers, k, v) ==
    IF Lower(Strip(k)) = <<"content-length">>
    THEN [known |-> TRUE, length |-> Strip(v)]
    ELSE headers

RECURSIVE ReadHeaders(_, _)
\* the loop of _read_message: lines are read up to the first empty one
ReadHeaders(stream, headers) ==
    IF \A i \in 1..Len(stream) : stream[i] # "LF"
    THEN [tag |-> "eof", headers |-> headers, rest |-> <<>>]
    ELSE LET end == CHOOSE i \in 1..Len(stream) :
                       /\ stream[i] = "LF"
                       /\ \A j \in 1..(i - 1) : stream[j] # "LF"
             line_str == Strip(SubSeq(stream, 1, end))
             rest == SubSeq(stream, end + 1, Len(stream))
         IN  IF Len(line_str) = 0
             THEN [tag |-> "ok", headers |-> headers, rest |-> rest]
             ELSE IF \E i \in 1..Len(line_str) : line_str[i] = ":"
             THEN LET colon == CHOOSE i \in 1..Len(line_str) :
                                 /\ line_str[i] = ":"
                                 /\ \A j \in 1..(i - 1) : line_str[j] # ":"
                  IN  ReadHeaders(rest,
                         SetHeader(headers, SubSeq(line_str, 1, colon - 1),
                                   SubSeq(line_str, colon + 1, Len(line_str))))
             ELSE ReadHeaders(rest, headers)

NoMessage == Message(0, <<"none">>)

\* _read_message on the bytes the stream holds: the message and the bytes
\* left in the stream, or the exception raised
ReadMessage(stream) ==
    LET h == ReadHeaders(stream, NoHeaders)
    IN  IF h.tag # "ok"
        THEN [tag |-> "eof", msg |-> NoMessage, rest |-> <<>>]
        ELSE IF ~h.headers.known \/ ~IsDigits(h.headers.length)
        THEN [tag |-> "value_error", msg |-> NoMessage, rest |-> h.rest]
        ELSE LET length == ParseInt(h.headers.length)
             IN  IF Len(h.rest) < length
                 THEN [tag |-> "eof", msg |-> NoMessage, rest |-> <<>>]
                 ELSE [tag  |-> "ok",
                       msg  |-> JsonLoads(Utf8Decode(SubSeq(h.rest, 1, length))),
                       rest |-> SubSeq(h.rest, length + 1, Len(h.rest))]

----------------------------------------------------------------------------
(* State machine *)

RequestCoordinates == { <<37, 0>> }

Init ==
    /\ max_retries \in 0..MaxRetries
    /\ ow_key \in BOOLEAN
    /\ av_key \in BOOLEAN
    /\ op = "idle"
    /\ pc = "idle"
    /\ units = "metric"
    /\ coords = <<0, 0>>
    /\ provider = "none"
    /\ attempt = 0
    /\ reqCount = [p \in Providers |-> 0]
    /\ lastOutcome = [p \in Providers |-> NoOutcome]
    /\ sleeps = <<>>
    /\ called = {}
    /\ owError = NoError
    /\ omError = NoError
    /\ ret = NoRet
    /\ park_details = NoRet
    /\ weather = NoDoc
    /\ outcome = Running
    /\ request = [p \in Providers |-> NoRequest]
    /\ response = Running
    /\ clients = [a \in Accessors |-> NoClient]
    /\ constructions = [a \in Accessors |-> 0]
    /\ demo_pc = "request"
    /\ req_id = 1
    /\ stdin = <<>>
    /\ stdout = <<>>
    /\ todo = <<>>
    /\ sent = <<>>
    /\ replies = <<>>
    /\ threads = [t \in Threads |-> IdleThread]

config == <<max_retries, ow_key, av_key>>

singletons == <<clients, constructions>>

\* a handler entered with the providers called, the attempt count and the
\* last outcomes of the earlier call still in place
EnterCarried(o, first, u, c) ==
    /\ pc \in {"idle", "done"}
    /\ op' = o
    /\ pc' = first
    /\ units' = u
    /\ coords' = c
    /\ provider' = "none"
    /\ reqCount' = [p \in Providers |-> 0]
    /\ sleeps' = <<>>
    /\ owError' = NoError
    /\ omError' = NoError
    /\ ret' = NoRet
    /\ park_details' = NoRet
    /\ weather' = NoDoc
    /\ outcome' = Running
    /\ request' = [p \in Providers |-> NoRequest]
    /\ response' = Running
    /\ UNCHANGED <<threads, demo, config, singletons, attempt, called, lastOutcome>>

\* A handler is entered: nothing of an earlier call is carried over
Enter(o, first, u, c) ==
    /\ pc \in {"idle", "done"}
    /\ op' = o
    /\ pc' = first
    /\ units' = u
    /\ coords' = c
    /\ provider' = "none"
    /\ attempt' = 0
    /\ reqCount' = [p \in Providers |-> 0]
    /\ lastOutcome' = [p \in Providers |-> NoOutcome]
    /\ sleeps' = <<>>
    /\ called' = {}
    /\ owError' = NoError
    /\ omError' = NoError
    /\ ret' = NoRet
    /\ park_details' = NoRet
    /\ weather' = NoDoc
    /\ outcome' = Running
    /\ request' = [p \in Providers |-> NoRequest]
    /\ response' = Running
    /\ UNCHANGED <<threads, demo, config, singletons>>

\* get_weather up to the call of build_weather_response
GetWeather(u, c) == Enter("getWeather", "build_weather", u, c)

\* get_air_quality up to the call of build_air_quality_response
GetAirQuality(c) == Enter("getAirQuality", "build_air_quality", "metric", c)

\* geocode_location up to client.search
GeocodeLocation == Enter("geocodeLocation", "search", "metric", <<0, 0>>)

\* reverse_geocode up to client.reverse
ReverseGeocode(c) == Enter("reverseGeocode", "reverse", "metric", c)

\* get_park_context up to the call of get_park_details
GetParkContext(u) == Enter("getParkContext", "park_details", u, <<0, 0>>)

\* an accessor that builds a new client on every call
GetClientFresh(a) ==
    /\ constructions' = [constructions EXCEPT ![a] = @ + 1]
    /\ clients' = [clients EXCEPT ![a] = constructions[a] + 1]

\* get_weather_client / get_air_quality_client / get_geocode_client: the
\* module-global client is built when it is None and handed out
GetClient(a) ==
    IF clients[a] = NoClient
    THEN /\ constructions' = [constructions EXCEPT ![a] = @ + 1]
         /\ clients' = [clients EXCEPT ![a] = constructions[a] + 1]
    ELSE UNCHANGED singletons

\* A tool function whose request model rejects the arguments: the handler
\* is not called and handle_validation_error answers
InvalidRequest ==
    /\ pc \in {"idle", "done"}
    /\ op' = "idle"
    /\ pc' = "done"
    /\ units' = "metric"
    /\ coords' = <<0, 0>>
    /\ provider' = "none"
    /\ attempt' = 0
    /\ reqCount' = [p \in Providers |-> 0]
    /\ lastOutcome' = [p \in Providers |-> NoOutcome]
    /\ sleeps' = <<>>
    /\ called' = {}
    /\ owError' = NoError
    /\ omError' = NoError
    /\ ret' = NoRet
    /\ park_details' = NoRet
    /\ weather' = NoDoc
    /\ outcome' = Running
    /\ request' = [p \in Providers |-> NoRequest]
    /\ response' = Returned(HandleValidationError)
    /\ UNCHANGED <<threads, demo, config, singletons>>

\* ExternalAPIClient.get is entered for provider p
BeginGet(p, params) ==
    /\ provider' = p
    /\ request' = [request EXCEPT ![p] = params]
    /\ attempt' = 0
    /\ lastOutcome' = [lastOutcome EXCEPT ![p] = NoOutcome]
    /\ sleeps' = <<>>
    /\ pc' = "http"
    /\ ret' = NoRet

ReturnPoint(p, o) ==
    CASE p = "OpenWeather" -> "ow_ret"
      [] p = "Open-Meteo"  -> "om_ret"
      [] p = "AirVisual"   -> "av_ret"
      [] p = "Nominatim"   -> IF o = "geocodeLocation" THEN "geo_ret"
                                                       ELSE "rev_ret"

\* get retrying every failed attempt, whatever its kind
ClientGetRetryAny(r) ==
    /\ pc = "http"
    /\ r \in ProviderOutcomes(provider)
    /\ reqCount' = [reqCount EXCEPT ![provider] = @ + 1]
    /\ lastOutcome' = [lastOutcome EXCEPT ![provider] = r]
    /\ IF /\ RetryEnabled(provider)
          /\ ClientGetResult(provider, op, r).tag = "err"
          /\ attempt < max_retries
       THEN /\ sleeps' = Append(sleeps, Delay(attempt))
            /\ attempt' = attempt + 1
            /\ UNCHANGED <<pc, ret>>
       ELSE /\ ret' = ClientGetResult(provider, op, r)
            /\ pc' = ReturnPoint(provider, op)
            /\ UNCHANGED <<attempt, sleeps>>
    /\ UNCHANGED <<threads, demo, config, request, response, singletons, op, units, coords, provider, called, owError,
                   omError, park_details, weather, outcome>>

\* One HTTP attempt of ExternalAPIClient.get: the retrying transport sleeps
\* and tries again, or get classifies what the transport produced
ClientGet(r) ==
    /\ pc = "http"
    /\ r \in ProviderOutcomes(provider)
    /\ reqCount' = [reqCount EXCEPT ![provider] = @ + 1]
    /\ lastOutcome' = [lastOutcome EXCEPT ![provider] = r]
    /\ IF ShouldRetry(provider, r, attempt)
       THEN /\ sleeps' = Append(sleeps, Delay(attempt))
            /\ attempt' = attempt + 1
            /\ UNCHANGED <<pc, ret>>
       ELSE /\ ret' = ClientGetResult(provider, op, r)
            /\ pc' = ReturnPoint(provider, op)
            /\ UNCHANGED <<attempt, sleeps>>
    /\ UNCHANGED <<threads, demo, config, request, response, singletons, op, units, coords, provider, called, owError,
                   omError, park_details, weather, outcome>>

MissingKey(p) ==
    Err("missing_api_key",
        IF p = "OpenWeather" THEN "OpenWeather API key not configured"
                             ELSE "AirVisual API key not configured",
        NoStatus, {<<"provider", p>>})

\* the OpenWeather request sent without looking at the key
GetOpenweatherCurrentUnchecked ==
    /\ pc = "build_weather"
    /\ called' = called \cup {"OpenWeather"}
    /\ GetClient("weather")
    /\ BeginGet("OpenWeather", OpenweatherParams(units))
    /\ UNCHANGED <<threads, demo, config, response, op, units, coords, reqCount, owError, omError,
                   park_details, weather, outcome>>

\* build_weather_response calls WeatherClient.get_openweather_current
GetOpenweatherCurrent ==
    /\ pc = "build_weather"
    /\ called' = called \cup {"OpenWeather"}
    /\ GetClient("weather")
    /\ IF ~ow_key
       THEN /\ ret' = Raise(MissingKey("OpenWeather"))
            /\ pc' = "ow_ret"
            /\ UNCHANGED <<provider, attempt, lastOutcome, sleeps, request>>
       ELSE BeginGet("OpenWeather", OpenweatherParams(units))
    /\ UNCHANGED <<threads, demo, config, response, op, units, coords, reqCount, owError, omError,
                   park_details, weather, outcome>>

\* the fallback taken for transient errors only, any other error raised
AfterOpenweatherTransientOnly ==
    /\ pc = "ow_ret"
    /\ CASE ret.tag = "ok" ->
              /\ ret' = IF IsObject(ret.val)
                        THEN Ok(NormalizeOpenweather(ret.val, units, coords))
                        ELSE Exc
              /\ pc' = "weather_ret"
              /\ UNCHANGED <<provider, attempt, lastOutcome, sleeps, called,
                             owError, request>>
         [] ret.tag = "err"
              /\ ret.val.kind \notin {"timeout_error", "network_error"} ->
              /\ owError' = ret.val
              /\ pc' = "weather_ret"
              /\ UNCHANGED <<provider, attempt, lastOutcome, sleeps, called,
                             ret, request>>
         [] OTHER ->
              /\ owError' = ret.val
              /\ called' = called \cup {"Open-Meteo"}
              /\ BeginGet("Open-Meteo", OpenMeteoParams(units))
    /\ UNCHANGED <<threads, demo, config, response, singletons, op, units, coords, reqCount, omError, park_details,
                   weather, outcome>>

\* the fallback taken also when the OpenWeather payload cannot be
\* normalized
AfterOpenweatherAnyFailure ==
    /\ pc = "ow_ret"
    /\ CASE ret.tag = "ok" /\ IsObject(ret.val) ->
              /\ ret' = Ok(NormalizeOpenweather(ret.val, units, coords))
              /\ pc' = "weather_ret"
              /\ UNCHANGED <<provider, attempt, lastOutcome, sleeps, called,
                             owError, request>>
         [] ret.tag = "ok" /\ ~IsObject(ret.val) ->
              /\ owError' = Err("unknown_error", "exception", NoStatus, {})
              /\ called' = called \cup {"Open-Meteo"}
              /\ BeginGet("Open-Meteo", OpenMeteoParams(units))
         [] OTHER ->
              /\ owError' = ret.val
              /\ called' = called \cup {"Open-Meteo"}
              /\ BeginGet("Open-Meteo", OpenMeteoParams(units))
    /\ UNCHANGED <<threads, demo, config, response, singletons, op, units, coords, reqCount, omError, park_details,
                   weather, outcome>>

\* build_weather_response after get_openweather_current: normalize and
\* return, or log the NPSAPIError and call get_open_meteo_current
AfterOpenweather ==
    /\ pc = "ow_ret"
    /\ CASE ret.tag = "ok" ->
              /\ ret' = IF IsObject(ret.val)
                        THEN Ok(NormalizeOpenweather(ret.val, units, coords))
                        ELSE Exc
              /\ pc' = "weather_ret"
              /\ UNCHANGED <<provider, attempt, lastOutcome, sleeps, called,
                             owError, request>>
         [] OTHER ->
              /\ owError' = ret.val
              /\ called' = called \cup {"Open-Meteo"}
              /\ BeginGet("Open-Meteo", OpenMeteoParams(units))
    /\ UNCHANGED <<threads, demo, config, response, singletons, op, units, coords, reqCount, omError, park_details,
                   weather, outcome>>

\* the error of the primary raised when the secondary fails too
AfterOpenMeteoFirstError ==
    /\ pc = "om_ret"
    /\ CASE ret.tag = "ok" ->
              /\ ret' = IF IsObject(ret.val)
                        THEN Ok(WithFallbackReason(
                                  NormalizeOpenMeteo(ret.val, units, coords)))
                        ELSE Exc
              /\ UNCHANGED omError
         [] OTHER ->
              /\ omError' = ret.val
              /\ ret' = Raise(owError)
    /\ pc' = "weather_ret"
    /\ UNCHANGED <<threads, demo, config, request, response, singletons, op, units, coords, provider, attempt, reqCount,
                   lastOutcome, sleeps, called, owError, park_details, weather,
                   outcome>>

\* build_weather_response after get_open_meteo_current
AfterOpenMeteo ==
    /\ pc = "om_ret"
    /\ CASE ret.tag = "ok" ->
              /\ ret' = IF IsObject(ret.val)
                        THEN Ok(WithFallbackReason(
                                  NormalizeOpenMeteo(ret.val, units, coords)))
                        ELSE Exc
              /\ UNCHANGED omError
         [] OTHER ->
              /\ omError' = ret.val
              /\ UNCHANGED ret
    /\ pc' = "weather_ret"
    /\ UNCHANGED <<threads, demo, config, request, response, singletons, op, units, coords, provider, attempt, reqCount,
                   lastOutcome, sleeps, called, owError, park_details, weather,
                   outcome>>

\* a handler that answers an NPSAPIError with a generic document
HandlerOutcomeSwallow(r, tool) ==
    CASE r.tag = "ok"  -> Returned(r.val)
      [] OTHER         -> Returned(GenericError(tool))

\* What a handler does with the result of its try block: return the value,
\* re-raise an NPSAPIError, turn any other exception into a generic document
HandlerOutcome(r, tool) ==
    CASE r.tag = "ok"  -> Returned(r.val)
      [] r.tag = "err" -> Raised(r.val)
      [] OTHER         -> Returned(GenericError(tool))

\* get_weather after build_weather_response
GetWeatherReturn ==
    /\ pc = "weather_ret"
    /\ op = "getWeather"
    /\ outcome' = HandlerOutcome(ret, "getWeather")
    /\ response' = ToolResponse(outcome', "getWeather")
    /\ pc' = "done"
    /\ UNCHANGED <<threads, demo, config, request, singletons, op, units, coords, provider, attempt, reqCount,
                   lastOutcome, sleeps, called, owError, omError, ret, park_details,
                   weather>>

\* the AirVisual request sent without looking at the key
GetNearestCityUnchecked ==
    /\ pc = "build_air_quality"
    /\ called' = called \cup {"AirVisual"}
    /\ GetClient("air_quality")
    /\ BeginGet("AirVisual", AirVisualParams)
    /\ UNCHANGED <<threads, demo, config, response, op, units, coords, reqCount, owError, omError,
                   park_details, weather, outcome>>

\* build_air_quality_response calls AirQualityClient.get_nearest_city
GetNearestCity ==
    /\ pc = "build_air_quality"
    /\ called' = called \cup {"AirVisual"}
    /\ GetClient("air_quality")
    /\ IF ~av_key
       THEN /\ ret' = Raise(MissingKey("AirVisual"))
            /\ pc' = "av_ret"
            /\ UNCHANGED <<provider, attempt, lastOutcome, sleeps, request>>
       ELSE BeginGet("AirVisual", AirVisualParams)
    /\ UNCHANGED <<threads, demo, config, response, op, units, coords, reqCount, owError, omError,
                   park_details, weather, outcome>>

\* build_air_quality_response after get_nearest_city
BuildAirQualityResult(r) ==
    IF r.tag = "ok" THEN Ok(NormalizeAirVisual(r.val, coords)) ELSE r

\* get_air_quality after build_air_quality_response
GetAirQualityReturn ==
    /\ pc = "av_ret"
    /\ op = "getAirQuality"
    /\ outcome' = HandlerOutcome(BuildAirQualityResult(ret), "getAirQuality")
    /\ response' = ToolResponse(outcome', "getAirQuality")
    /\ pc' = "done"
    /\ UNCHANGED <<threads, demo, config, request, singletons, op, units, coords, provider, attempt, reqCount,
                   lastOutcome, sleeps, called, owError, omError, ret, park_details,
                   weather>>

\* geocode_location calls NominatimClient.search
Search ==
    /\ pc = "search"
    /\ called' = called \cup {"Nominatim"}
    /\ GetClient("geocode")
    /\ BeginGet("Nominatim", SearchParams)
    /\ UNCHANGED <<threads, demo, config, response, op, units, coords, reqCount, owError, omError,
                   park_details, weather, outcome>>

\* geocode_location after client.search
GeocodeReturn ==
    /\ pc = "geo_ret"
    /\ outcome' =
          IF ret.tag = "ok"
          THEN LET formatted == FormatGeocodeResults(SearchResults(ret.val))
               IN  IF formatted.tag = "ok"
                   THEN Returned(GeocodeDocument(formatted.val))
                   ELSE Failed
          ELSE Raised(ret.val)
    /\ response' = ToolResponse(outcome', "geocodeLocation")
    /\ pc' = "done"
    /\ UNCHANGED <<threads, demo, config, request, singletons, op, units, coords, provider, attempt, reqCount,
                   lastOutcome, sleeps, called, owError, omError, ret, park_details,
                   weather>>

\* reverse_geocode calls NominatimClient.reverse
Reverse ==
    /\ pc = "reverse"
    /\ called' = called \cup {"Nominatim"}
    /\ GetClient("geocode")
    /\ BeginGet("Nominatim", ReverseParams)
    /\ UNCHANGED <<threads, demo, config, response, op, units, coords, reqCount, owError, omError,
                   park_details, weather, outcome>>

\* reverse_geocode after client.reverse
ReverseReturn ==
    /\ pc = "rev_ret"
    /\ outcome' = IF ret.tag = "ok"
                  THEN ReverseDocument(ret.val)
                  ELSE Raised(ret.val)
    /\ response' = ToolResponse(outcome', "reverseGeocode")
    /\ pc' = "done"
    /\ UNCHANGED <<threads, demo, config, request, singletons, op, units, coords, provider, attempt, reqCount,
                   lastOutcome, sleeps, called, owError, omError, ret, park_details,
                   weather>>

\* get_park_context from get_park_details to the call of
\* build_weather_response: an error document is returned as it is, an
\* NPSAPIError is re-raised, missing coordinates give context_error
ParkDetails(r) ==
    /\ pc = "park_details"
    /\ called' = called \cup {"parkDetails"}
    /\ park_details' = r
    /\ CASE r.tag = "ok" /\ IsErrorDocument(r.val) ->
              /\ outcome' = Returned(r.val)
              /\ response' = ToolResponse(outcome', "getParkContext")
              /\ pc' = "done"
              /\ UNCHANGED coords
         [] r.tag = "ok" /\ ~IsErrorDocument(r.val) ->
              LET latitude  == ParseCoordinate(r.val.location.latitude)
                  longitude == ParseCoordinate(r.val.location.longitude)
              IN  IF ~latitude.some \/ ~longitude.some
                  THEN /\ outcome' = Returned(ContextError)
                       /\ response' = ToolResponse(outcome', "getParkContext")
                       /\ pc' = "done"
                       /\ UNCHANGED coords
                  ELSE /\ coords' = <<latitude.v, longitude.v>>
                       /\ pc' = "build_weather"
                       /\ UNCHANGED <<outcome, response>>
         [] OTHER ->
              /\ outcome' = HandlerOutcome(r, "getParkContext")
              /\ response' = ToolResponse(outcome', "getParkContext")
              /\ pc' = "done"
              /\ UNCHANGED coords
    /\ UNCHANGED <<threads, demo, config, request, singletons, op, units, provider, attempt, reqCount,
                   lastOutcome, sleeps, owError, omError, ret, weather>>

\* get_park_context after build_weather_response: the result fills the
\* weather slot; an exception leaves the try block
ContextAfterWeather ==
    /\ pc = "weather_ret"
    /\ op = "getParkContext"
    /\ IF ret.tag = "ok"
       THEN /\ weather' = ret.val
            /\ pc' = "build_air_quality"
            /\ UNCHANGED <<outcome, response>>
       ELSE /\ outcome' = HandlerOutcome(ret, "getParkContext")
            /\ response' = ToolResponse(outcome', "getParkContext")
            /\ pc' = "done"
            /\ UNCHANGED weather
    /\ UNCHANGED <<threads, demo, config, request, singletons, op, units, coords, provider, attempt, reqCount,
                   lastOutcome, sleeps, called, owError, omError, ret, park_details>>

\* an air-quality error leaving get_park_context as an exception
ContextAfterAirQualityRaise ==
    /\ pc = "av_ret"
    /\ op = "getParkContext"
    /\ LET r == BuildAirQualityResult(ret)
       IN  outcome' = IF r.tag = "ok"
                      THEN Returned(ParkContext(park_details.val, coords,
                                                weather, r.val))
                      ELSE Raised(r.val)
    /\ response' = ToolResponse(outcome', "getParkContext")
    /\ pc' = "done"
    /\ UNCHANGED <<threads, demo, config, request, singletons, op, units, coords, provider, attempt, reqCount,
                   lastOutcome, sleeps, called, owError, omError, ret, park_details,
                   weather>>

\* get_park_context after build_air_quality_response: an NPSAPIError
\* becomes an error document in the airQuality slot
ContextAfterAirQuality ==
    /\ pc = "av_ret"
    /\ op = "getParkContext"
    /\ LET r == BuildAirQualityResult(ret)
           air_quality ==
               IF r.tag = "ok" THEN r.val
               ELSE ErrorResponse(r.val.kind, r.val.message, r.val.details)
       IN  outcome' = Returned(ParkContext(park_details.val, coords, weather,
                                        air_quality))
    /\ response' = ToolResponse(outcome', "getParkContext")
    /\ pc' = "done"
    /\ UNCHANGED <<threads, demo, config, request, singletons, op, units, coords, provider, attempt, reqCount,
                   lastOutcome, sleeps, called, owError, omError, ret, park_details,
                   weather>>

Next ==
    \/ \E u \in UnitSystems, c \in RequestCoordinates : GetWeather(u, c)
    \/ \E c \in RequestCoordinates : GetAirQuality(c)
    \/ GeocodeLocation
    \/ \E c \in RequestCoordinates : ReverseGeocode(c)
    \/ \E u \in UnitSystems : GetParkContext(u)
    \/ InvalidRequest
    \/ \E r \in Outcomes : ClientGet(r)
    \/ GetOpenweatherCurrent
    \/ AfterOpenweather
    \/ AfterOpenMeteo
    \/ GetWeatherReturn
    \/ GetNearestCity
    \/ GetAirQualityReturn
    \/ Search
    \/ GeocodeReturn
    \/ Reverse
    \/ ReverseReturn
    \/ \E r \in ParkDetailsOutcomes : ParkDetails(r)
    \/ ContextAfterWeather
    \/ ContextAfterAirQuality

Spec == Init /\ [][Next]_vars

----------------------------------------------------------------------------
(* The demonstration client and the server it talks to *)

\* the method and params of a request, as one short string
RequestText == <<"a">>

\* the string values the server puts in its messages
ServerTexts ==
    { t \in Texts(MaxText) :
        /\ Len(t) \in {0, MaxText}
        /\ \A i \in 1..Len(t) : t[i] = t[1] }

\* What the server writes for a message it has read: nothing for a
\* notification; for a request its response, alone or with a notification
\* of its own before or after it
ServerPlans(m) ==
    IF m.id = 0 THEN {<<>>}
    ELSE { <<Message(m.id, t)>> : t \in ServerTexts }
           \cup { <<Message(0, n), Message(m.id, t)>> :
                    n \in ServerTexts, t \in ServerTexts }
           \cup { <<Message(m.id, t), Message(0, n)>> :
                    n \in ServerTexts, t \in ServerTexts }

\* _send
Send(payload) == stdin' = stdin \o EncodeMessage(payload)

\* _request up to the call of _read_message
Request ==
    /\ demo_pc = "request"
    /\ Send(Message(req_id, RequestText))
    /\ demo_pc' = "read"
    /\ UNCHANGED <<threads, server, req_id, stdout, todo, sent, replies>>

\* _request from _read_message on: the next message of the stream is
\* returned, and main() goes on to its next step
ReadReply ==
    /\ demo_pc = "read"
    /\ LET r == ReadMessage(stdout)
       IN  /\ r.tag = "ok"
           /\ replies' = Append(replies, r.msg)
           /\ stdout' = r.rest
    /\ demo_pc' = IF req_id = 1 THEN "notify"
                  ELSE IF req_id = MaxId THEN "exit" ELSE "request"
    /\ req_id' = IF req_id < MaxId THEN req_id + 1 ELSE req_id
    /\ UNCHANGED <<threads, server, stdin, todo, sent>>

\* _notify(proc, method="notifications/initialized")
Notify ==
    /\ demo_pc = "notify"
    /\ Send(Message(0, RequestText))
    /\ demo_pc' = "request"
    /\ UNCHANGED <<threads, server, req_id, stdout, todo, sent, replies>>

\* mcp.close() at the end of main()
Close ==
    /\ demo_pc = "exit"
    /\ demo_pc' = "closed"
    /\ UNCHANGED <<threads, server, req_id, stdin, stdout, todo, sent, replies>>

\* the server reads one message from its stdin
ServerReceive ==
    /\ demo_pc # "closed"
    /\ todo = <<>>
    /\ LET r == ReadMessage(stdin)
       IN  /\ r.tag = "ok"
           /\ stdin' = r.rest
           /\ todo' \in ServerPlans(r.msg)
    /\ UNCHANGED <<threads, server, demo_pc, req_id, stdout, sent, replies>>

\* the server writes its next message to stdout
ServerEmit ==
    /\ demo_pc # "closed"
    /\ todo # <<>>
    /\ stdout' = stdout \o EncodeMessage(Head(todo))
    /\ sent' = Append(sent, Head(todo))
    /\ todo' = Tail(todo)
    /\ UNCHANGED <<threads, server, demo_pc, req_id, stdin, replies>>

DemoInit ==
    /\ Init
    /\ max_retries = DefaultMaxRetries
    /\ ow_key
    /\ av_key

DemoNext ==
    \/ Request
    \/ ReadReply
    \/ Notify
    \/ Close
    \/ ServerReceive
    \/ ServerEmit

SpecDemo == DemoInit /\ [][DemoNext]_vars

----------------------------------------------------------------------------
(* The client accessors called from two threads *)

\* a tool function running on thread t reaches the accessor a
AccessorEnter(t, a) ==
    /\ threads[t].pc = "idle"
    /\ threads' = [threads EXCEPT ![t] = [IdleThread EXCEPT !.pc = "test",
                                                           !.accessor = a]]
    /\ UNCHANGED <<demo, config, handlers, singletons>>

\* if _client is None: the global is read and compared
AccessorTest(t) ==
    /\ threads[t].pc = "test"
    /\ threads' = [threads EXCEPT ![t].pc =
                      IF clients[threads[t].accessor] = NoClient
                      THEN "construct" ELSE "return"]
    /\ UNCHANGED <<demo, config, handlers, singletons>>

\* the right-hand side of _client = WeatherClient(): a client is built
AccessorConstruct(t) ==
    /\ threads[t].pc = "construct"
    /\ LET a == threads[t].accessor
       IN  /\ constructions' = [constructions EXCEPT ![a] = @ + 1]
           /\ threads' = [threads EXCEPT ![t].pc = "store",
                                         ![t].made = constructions[a] + 1]
    /\ UNCHANGED <<demo, config, handlers, clients>>

\* the assignment to the module global
AccessorStore(t) ==
    /\ threads[t].pc = "store"
    /\ clients' = [clients EXCEPT ![threads[t].accessor] = threads[t].made]
    /\ threads' = [threads EXCEPT ![t].pc = "return"]
    /\ UNCHANGED <<demo, config, handlers, constructions>>

\* return _client: the global is read again and handed to the caller
AccessorReturn(t) ==
    /\ threads[t].pc = "return"
    /\ threads' = [threads EXCEPT ![t].pc = "using",
                                  ![t].handle = clients[threads[t].accessor]]
    /\ UNCHANGED <<demo, config, handlers, singletons>>

\* the tool function on thread t is over
InvocationEnd(t) ==
    /\ threads[t].pc = "using"
    /\ threads' = [threads EXCEPT ![t] = IdleThread]
    /\ UNCHANGED <<demo, config, handlers, singletons>>

RaceInit ==
    /\ Init
    /\ max_retries = DefaultMaxRetries
    /\ ow_key
    /\ av_key

RaceNext ==
    \/ \E t \in Threads, a \in Accessors : AccessorEnter(t, a)
    \/ \E t \in Threads : AccessorTest(t)
    \/ \E t \in Threads : AccessorConstruct(t)
    \/ \E t \in Threads : AccessorStore(t)
    \/ \E t \in Threads : AccessorReturn(t)
    \/ \E t \in Threads : InvocationEnd(t)

SpecRace == RaceInit /\ [][RaceNext]_vars

----------------------------------------------------------------------------
(* Properties *)

RetryingProviders == {"OpenWeather", "AirVisual", "Nominatim"}

\* the canonical kind of one raw attempt outcome (section 4.1 of the design)
KindOf(r) ==
    CASE r.type = "timeout" -> "timeout_error"
      [] r.type = "network" -> "network_error"
      [] r.type = "other"   -> "unknown_error"
      [] r.type = "response" /\ (r.status < 200 \/ r.status > 299)
                            -> "http_error"
      [] r.type = "response" /\ r.body = "not_json" -> "parse_error"
      [] OTHER              -> "none"

\* the get of the current provider has just handed back its result
GetReturned ==
    /\ provider \in Providers
    /\ pc = ReturnPoint(provider, op)
    /\ lastOutcome[provider].type # "none"

\* C1: a get of a retrying client with ceiling max_retries makes at most
\* max_retries + 1 HTTP attempts, its attempt counter never exceeds
\* max_retries, and the error it raises is the classification of its final
\* attempt.
C1_RetryBound ==
    /\ attempt <= max_retries
    /\ \A p \in RetryingProviders : reqCount[p] <= max_retries + 1
    /\ (GetReturned /\ ret.tag = "err")
          => ret.val.kind = KindOf(lastOutcome[provider])
    /\ (GetReturned /\ KindOf(lastOutcome[provider]) # "none")
          => ret.tag = "err"

C1_Witness ==
    /\ max_retries = DefaultMaxRetries
    /\ provider = "OpenWeather"
    /\ pc = "ow_ret"
    /\ reqCount["OpenWeather"] = DefaultMaxRetries + 1
    /\ attempt = DefaultMaxRetries
    /\ ret.tag = "err"
    /\ ret.val.kind = "timeout_error"

\* C2: within one provider call an HTTP attempt follows an earlier attempt
\* only if that earlier attempt failed with timeout_error or network_error;
\* an attempt ending in any other kind ends the call with that error, and
\* missing_api_key is raised without any attempt.
C2_RetryOnlyTransient ==
    [][ /\ \A p \in Providers :
             (reqCount'[p] = reqCount[p] + 1 /\ lastOutcome[p].type # "none")
                => KindOf(lastOutcome[p]) \in {"timeout_error", "network_error"}
        /\ \A p \in Providers :
             (reqCount'[p] = reqCount[p] + 1
                /\ KindOf(lastOutcome'[p]) \in
                     {"http_error", "parse_error", "unknown_error"})
                => /\ pc' = ReturnPoint(p, op)
                   /\ ret'.tag = "err"
                   /\ ret'.val.kind = KindOf(lastOutcome'[p])
        /\ (ret.tag # "err" /\ ret'.tag = "err"
              /\ ret'.val.kind = "missing_api_key")
                => UNCHANGED reqCount
      ]_vars

C2_Witness ==
    /\ max_retries >= 1
    /\ provider = "OpenWeather"
    /\ pc = "ow_ret"
    /\ reqCount["OpenWeather"] = 1
    /\ ret.tag = "err"
    /\ ret.val.kind = "http_error"

\* C3: the i-th sleep of a get (before retry i+1, i from 0) lasts
\* min(initial_delay * exponential_base^i, max_delay), the same in every
\* run; the delays never decrease and, with 1, 2 and 30 configured, none
\* exceeds 30.
C3_BackoffDelays ==
    /\ \A k \in 1..Len(sleeps) :
          /\ sleeps[k] = Min(1 * 2^(k - 1), 30)
          /\ sleeps[k] <= 30
          /\ k > 1 => sleeps[k - 1] <= sleeps[k]
    /\ Len(sleeps) = attempt
    /\ \A i \in 0..max_retries :
          /\ Delay(i) = Min(initial_delay * exponential_base^i, max_delay)
          /\ Delay(i) <= Delay(i + 1)
          /\ Delay(i) <= 30

C3_Witness ==
    /\ Len(sleeps) = 6
    /\ sleeps[5] = 16
    /\ sleeps[6] = 30

OwLast == lastOutcome["OpenWeather"]

OmLast == lastOutcome["Open-Meteo"]

\* a 2xx reply carrying JSON
JsonReply(r) ==
    r.type = "response" /\ r.status \in 200..299 /\ r.body # "not_json"

JsonObjectReply(r) ==
    JsonReply(r) /\ r.body \in {"object", "empty_object"}

\* the OpenWeather call of this operation returned its payload
OwSucceeded == JsonReply(OwLast)

\* the OpenWeather call of this operation has ended in a canonical error
OwFailed ==
    /\ "OpenWeather" \in called
    /\ \/ ~ow_key
       \/ /\ KindOf(OwLast) # "none"
          /\ ~(pc = "http" /\ provider = "OpenWeather")

OwFailureKind == IF ~ow_key THEN "missing_api_key" ELSE KindOf(OwLast)

\* P holds of every weather result handed to a caller: the document
\* get_weather returned, the one build_weather_response hands to
\* get_park_context, and the weather slot of the composite
ForWeatherResults(P(_)) ==
    /\ (op = "getWeather" /\ outcome.state = "returned"
          /\ "source" \in DOMAIN outcome.val) => P(outcome.val)
    /\ (pc = "weather_ret" /\ ret.tag = "ok") => P(ret.val)
    /\ "source" \in DOMAIN weather => P(weather)

\* P holds of the error of every failed weather lookup: the one
\* build_weather_response raises and the one get_weather raises
ForWeatherFailures(P(_)) ==
    /\ (pc = "weather_ret" /\ ret.tag = "err") => P(ret.val)
    /\ (op = "getWeather" /\ outcome.state = "raised") => P(outcome.val)

C4_OpenweatherSource(d) ==
    d.source = [provider |-> "OpenWeather", fallback |-> FALSE]

\* C4: when OpenWeather succeeds the weather result carries provenance
\* {provider: OpenWeather, fallback: false} and no Open-Meteo call or
\* request is made in that lookup; Open-Meteo is called only after
\* OpenWeather has failed.
C4_PrimarySuccess ==
    /\ OwSucceeded =>
          /\ "Open-Meteo" \notin called
          /\ reqCount["Open-Meteo"] = 0
          /\ ForWeatherResults(C4_OpenweatherSource)
    /\ ("Open-Meteo" \in called \/ reqCount["Open-Meteo"] > 0) => OwFailed
    /\ (JsonObjectReply(OwLast) /\ op = "getWeather" /\ pc = "done") =>
          /\ outcome.state = "returned"
          /\ "source" \in DOMAIN outcome.val

C4_Witness ==
    /\ op = "getWeather"
    /\ pc = "done"
    /\ OwSucceeded
    /\ outcome.state = "returned"
    /\ "source" \in DOMAIN outcome.val
    /\ outcome.val.source.provider = "OpenWeather"
    /\ reqCount["OpenWeather"] >= 2

C5_FallbackSource(d) ==
    /\ d.source.provider = "Open-Meteo"
    /\ d.source.fallback = TRUE
    /\ "fallbackReason" \in DOMAIN d.source
    /\ d.source.fallbackReason # ""
    /\ d.source.fallbackReason = "OpenWeather unavailable"

\* C5: when OpenWeather fails and Open-Meteo succeeds the weather result
\* carries provider Open-Meteo, fallback true and the non-empty
\* fallbackReason "OpenWeather unavailable", which names the failed primary.
C5_FallbackProvenance ==
    /\ (OwFailed /\ JsonReply(OmLast)) => ForWeatherResults(C5_FallbackSource)
    /\ (OwFailed /\ JsonObjectReply(OmLast) /\ op = "getWeather"
          /\ pc = "done") =>
          /\ outcome.state = "returned"
          /\ "source" \in DOMAIN outcome.val

C5_Witness ==
    /\ op = "getWeather"
    /\ pc = "done"
    /\ ow_key
    /\ OwFailed
    /\ JsonObjectReply(OmLast)
    /\ outcome.state = "returned"
    /\ outcome.val.source.provider = "Open-Meteo"

C6_OpenMeteoTried(e) ==
    /\ "Open-Meteo" \in called
    /\ reqCount["Open-Meteo"] = 1
    /\ e.kind = KindOf(OmLast)

\* C6: whatever canonical kind the OpenWeather call raises, the lookup goes
\* on to Open-Meteo: once OpenWeather has failed and the handler has seen
\* the error, Open-Meteo has been called, and a weather lookup never fails
\* without an Open-Meteo request.
C6_FallbackOnAnyKind ==
    /\ (OwFailed /\ pc # "ow_ret") =>
          /\ "Open-Meteo" \in called
          /\ owError.kind = OwFailureKind
          /\ owError.kind \in ErrorKinds
    /\ (OwFailed /\ pc \notin {"ow_ret", "http"}) => reqCount["Open-Meteo"] = 1
    /\ ForWeatherFailures(C6_OpenMeteoTried)

C6_Witness ==
    /\ owError.kind = "parse_error"
    /\ reqCount["Open-Meteo"] = 1
    /\ OmLast.type = "response"

C7_OpenMeteoError(e) ==
    /\ OwFailed
    /\ e = omError
    /\ e.kind = KindOf(OmLast)
    /\ e.status = OmLast.status
    /\ e.kind = "http_error" =>
          e.message = IF OmLast.body = "object" THEN "upstream message"
                                                ELSE "HTTP 503 error"
    /\ e.kind # "parse_error" =>
          /\ <<"url", "open-meteo/forecast">> \in e.details
          /\ e # owError

\* C7: when both providers fail the weather lookup fails with exactly the
\* error of the Open-Meteo call (kind, message, status, details), not with
\* the error of OpenWeather.
C7_BothFail == ForWeatherFailures(C7_OpenMeteoError)

C7_Witness ==
    /\ op = "getWeather"
    /\ outcome.state = "raised"
    /\ owError.kind = "timeout_error"
    /\ outcome.val.kind = "http_error"
    /\ outcome.val.status = 503

C8_Provenance(d) ==
    /\ d.source.fallback = TRUE =>
          /\ "fallbackReason" \in DOMAIN d.source
          /\ OwFailed
          /\ owError.kind \in ErrorKinds
    /\ d.source.fallback = FALSE => "fallbackReason" \notin DOMAIN d.source

\* C8: in every weather result, fallback = true implies that fallbackReason
\* is present and that the OpenWeather call was made and failed earlier in
\* the same operation; fallback = false implies there is no fallbackReason.
C8_ProvenanceInvariant == ForWeatherResults(C8_Provenance)

C8_Witness ==
    /\ op = "getParkContext"
    /\ pc = "done"
    /\ outcome.state = "returned"
    /\ "weather" \in DOMAIN outcome.val
    /\ outcome.val.weather.source.fallback = TRUE
    /\ ~ow_key

SuccessResult ==
    /\ op \in {"getWeather", "getAirQuality", "geocodeLocation",
               "reverseGeocode"}
    /\ outcome.state = "returned"
    /\ "error" \notin DOMAIN outcome.val

\* C9: every success result of the weather, air-quality, geocode and
\* reverse-geocode handlers carries a provenance record with a provider
\* name and a boolean fallback field.
C9_EveryResultHasProvenance ==
    SuccessResult =>
       /\ "source" \in DOMAIN outcome.val
       /\ "provider" \in DOMAIN outcome.val.source
       /\ "fallback" \in DOMAIN outcome.val.source
       /\ outcome.val.source.fallback \in BOOLEAN

NoSubLookup ==
    /\ called \cap {"OpenWeather", "Open-Meteo", "AirVisual"} = {}
    /\ \A p \in Providers : reqCount[p] = 0
    /\ "source" \notin DOMAIN weather

\* C10: in get_park_context, when get_park_details raises a canonical error
\* the composite raises that same error, when it returns an error document
\* the composite returns that document, and in both cases no weather and no
\* air-quality lookup is made.
C10_MandatoryFailure ==
    op = "getParkContext" =>
       /\ park_details.tag = "err" =>
             /\ pc = "done"
             /\ outcome.state = "raised"
             /\ outcome.val = park_details.val
             /\ NoSubLookup
       /\ (park_details.tag = "ok" /\ "error" \in DOMAIN park_details.val) =>
             /\ pc = "done"
             /\ outcome.state = "returned"
             /\ outcome.val = park_details.val
             /\ NoSubLookup

C10_Witness ==
    /\ op = "getParkContext"
    /\ park_details.tag = "err"
    /\ park_details.val.kind = "http_error"
    /\ outcome.state = "raised"

AvLast == lastOutcome["AirVisual"]

\* the weather lookup of get_park_context has failed: OpenWeather ended in a
\* canonical error and so did the single Open-Meteo attempt
WeatherLookupFailed ==
    /\ op = "getParkContext"
    /\ OwFailed
    /\ KindOf(OmLast) # "none"

\* C11: in get_park_context, when park details succeed with usable
\* coordinates and both weather providers fail, the composite is not aborted:
\* nothing is raised, and the call returns park, location, airQuality and
\* contextGeneratedAt with an {error, message, details} document in the
\* weather slot.
C11_WeatherFailureInline ==
    WeatherLookupFailed =>
       /\ outcome.state # "raised"
       /\ pc = "done" =>
             /\ outcome.state = "returned"
             /\ {"park", "location", "weather", "airQuality",
                 "contextGeneratedAt"} \subseteq DOMAIN outcome.val
             /\ DOMAIN outcome.val.weather = {"error", "message", "details"}

\* the air-quality lookup of this operation ended in a canonical error of
\* this kind ("none" when it returned a payload)
AvFailureKind == IF ~av_key THEN "missing_api_key" ELSE KindOf(AvLast)

\* get_park_context has finished after a successful weather lookup and an
\* air-quality lookup
ContextAfterBothLookups ==
    /\ op = "getParkContext"
    /\ pc = "done"
    /\ "source" \in DOMAIN weather
    /\ "AirVisual" \in called

\* C12: in get_park_context, when park details and weather succeed and the
\* air-quality lookup fails with a canonical error of kind k, the composite
\* is returned, its airQuality slot is {error: k, message, details} of that
\* error, the park and weather slots hold their results, and a slot has an
\* error field exactly when its lookup failed.
C12_AirQualityFailureInline ==
    ContextAfterBothLookups =>
       /\ outcome.state = "returned"
       /\ DOMAIN outcome.val = {"park", "location", "weather", "airQuality",
                                "contextGeneratedAt"}
       /\ outcome.val.park = park_details.val
       /\ "error" \notin DOMAIN outcome.val.park
       /\ outcome.val.weather = weather
       /\ "error" \notin DOMAIN outcome.val.weather
       /\ outcome.val.weather.source.provider \in {"OpenWeather", "Open-Meteo"}
       /\ IF AvFailureKind # "none"
          THEN /\ ret.tag = "err"
               /\ outcome.val.airQuality =
                     [error   |-> AvFailureKind,
                      message |-> ret.val.message,
                      details |-> ret.val.details]
          ELSE /\ "error" \notin DOMAIN outcome.val.airQuality
               /\ outcome.val.airQuality.source.provider = "AirVisual"

C12_Witness ==
    /\ ContextAfterBothLookups
    /\ av_key
    /\ AvFailureKind = "timeout_error"
    /\ outcome.state = "returned"
    /\ outcome.val.airQuality.error = "timeout_error"
    /\ outcome.val.weather.source.provider = "OpenWeather"

\* raw coordinate values that are missing or cannot be parsed as a number
UnusableCoordinates == {"missing", "null", "abc"}

\* get_park_details returned the details of a park whose latitude or
\* longitude is missing or cannot be parsed
ParkWithoutCoordinates ==
    /\ op = "getParkContext"
    /\ park_details.tag = "ok"
    /\ "location" \in DOMAIN park_details.val
    /\ \/ park_details.val.location.latitude \in UnusableCoordinates
       \/ park_details.val.location.longitude \in UnusableCoordinates

\* C13: in get_park_context, when the park details have a missing or
\* unparseable latitude or longitude, the result is a context_error document
\* and no weather or air-quality lookup and no provider request is made.
C13_ContextError ==
    ParkWithoutCoordinates =>
       /\ pc = "done"
       /\ outcome.state = "returned"
       /\ DOMAIN outcome.val = {"error", "message", "details"}
       /\ outcome.val.error = "context_error"
       /\ NoSubLookup

C13_Witness ==
    /\ ParkWithoutCoordinates
    /\ park_details.val.location.latitude = "37"
    /\ park_details.val.location.longitude = "abc"
    /\ outcome.state = "returned"
    /\ outcome.val.error = "context_error"

\* C14: an air-quality call made while no AirVisual key is configured makes
\* no HTTP request at all and ends by raising missing_api_key.
C14_MissingKeyNoRequest ==
    (op = "getAirQuality" /\ ~av_key) =>
       /\ \A p \in Providers : reqCount[p] = 0
       /\ pc \in {"build_air_quality", "av_ret", "done"}
       /\ sleeps = <<>>
       /\ pc = "done" =>
             /\ outcome.state = "raised"
             /\ outcome.val.kind = "missing_api_key"

C14_Witness ==
    /\ op = "getAirQuality"
    /\ ~av_key
    /\ pc = "done"
    /\ outcome.state = "raised"
    /\ outcome.val.kind = "missing_api_key"
    /\ reqCount["AirVisual"] = 0

\* C15: whenever the weather lookup falls back, the Open-Meteo request
\* carries unit parameters naming the requested unit system (metric:
\* Celsius and m/s, imperial: Fahrenheit and mph); and when OpenWeather
\* timed out up to the ceiling with units = metric and Open-Meteo answers,
\* the result has source.provider = "Open-Meteo" and source.fallback = TRUE.
C15_MatchingUnitParameters ==
    /\ reqCount["Open-Meteo"] >= 1 =>
          /\ units = "metric" =>
                {<<"temperature_unit", "celsius">>, <<"wind_speed_unit", "ms">>}
                   \subseteq request["Open-Meteo"]
          /\ units = "imperial" =>
                {<<"temperature_unit", "fahrenheit">>,
                 <<"wind_speed_unit", "mph">>} \subseteq request["Open-Meteo"]
    /\ ( /\ op = "getWeather"
         /\ pc = "done"
         /\ units = "metric"
         /\ OwLast.type = "timeout"
         /\ reqCount["OpenWeather"] = max_retries + 1
         /\ JsonObjectReply(OmLast) ) =>
          /\ outcome.state = "returned"
          /\ outcome.val.source.provider = "Open-Meteo"
          /\ outcome.val.source.fallback = TRUE

\* C16: every tool invocation ends with the tool function handing back a
\* document: the handler's result as it is, an error document of the same
\* kind for a canonical error, an internal_error document for any other
\* exception and a validation_error document for a rejected request; no
\* exception leaves the tool function.
C16_StructuredResponse ==
    IF pc = "done"
    THEN /\ response.state = "returned"
         /\ outcome.state = "returned" => response.val = outcome.val
         /\ outcome.state = "raised" =>
               /\ DOMAIN response.val = {"error", "message", "details"}
               /\ response.val.error = outcome.val.kind
               /\ response.val.message = outcome.val.message
         /\ outcome.state = "exception" =>
               /\ DOMAIN response.val = {"error", "message", "details"}
               /\ response.val.error = "internal_error"
         /\ outcome.state = "running" =>
               /\ op = "idle"
               /\ response.val.error = "validation_error"
    ELSE response.state = "running"

C16_Witness ==
    /\ op = "getWeather"
    /\ pc = "done"
    /\ outcome.state = "raised"
    /\ outcome.val.kind = "http_error"
    /\ response.state = "returned"
    /\ response.val.error = "http_error"

\* C17: every outcome of ExternalAPIClient.get is either the parsed JSON or a
\* canonical error of exactly one kind of the closed set: network_error for
\* a connection failure, timeout_error for an exceeded deadline, http_error
\* for a non-2xx status, parse_error for an unreadable 2xx body and
\* unknown_error for anything else.
C17_Classification ==
    GetReturned =>
       LET r == lastOutcome[provider]
       IN  /\ ret.tag \in {"ok", "err"}
           /\ ret.tag = "ok" <=> JsonReply(r)
           /\ ret.tag = "ok" => ret.val = r.body
           /\ ret.tag = "err" =>
                 /\ ret.val.kind \in ErrorKinds \ {"missing_api_key"}
                 /\ r.type = "network" <=> ret.val.kind = "network_error"
                 /\ r.type = "timeout" <=> ret.val.kind = "timeout_error"
                 /\ (r.type = "response" /\ r.status \notin 200..299)
                       <=> ret.val.kind = "http_error"
                 /\ (r.type = "response" /\ r.status \in 200..299)
                       <=> ret.val.kind = "parse_error"
                 /\ r.type = "other" <=> ret.val.kind = "unknown_error"
                 /\ ret.val.kind = "http_error" => ret.val.status = r.status

C17_Witness ==
    /\ GetReturned
    /\ provider = "AirVisual"
    /\ lastOutcome[provider].type = "response"
    /\ lastOutcome[provider].status = 200
    /\ lastOutcome[provider].body = "not_json"
    /\ ret.tag = "err"
    /\ ret.val.kind = "parse_error"

\* the control point at which a handler calls the accessor
AccessorCall(a) ==
    CASE a = "weather"     -> pc = "build_weather"
      [] a = "air_quality" -> pc = "build_air_quality"
      [] a = "geocode"     -> pc \in {"search", "reverse"}

\* C18: no provider client exists before the first call of its accessor;
\* a client is constructed only by a call of its accessor that finds none,
\* at most once per accessor, and every call of the accessor hands out that
\* same client, which is never replaced.
C18_LazySingletons ==
    /\ \A a \in Accessors : clients[a] = NoClient /\ constructions[a] = 0
    /\ [][\A a \in Accessors :
            /\ constructions'[a] <= 1
            /\ clients[a] # NoClient => clients'[a] = clients[a]
            /\ constructions'[a] # constructions[a] =>
                  /\ AccessorCall(a)
                  /\ clients[a] = NoClient
            /\ (AccessorCall(a) /\ pc' # pc) => clients'[a] # NoClient]_vars

C18_Witness ==
    /\ op = "reverseGeocode"
    /\ pc = "done"
    /\ \A a \in Accessors : clients[a] # NoClient /\ constructions[a] = 1

\* the fields of a reading are those of both adapters
C19_FieldSet(d) ==
    /\ DOMAIN d.current = DOMAIN OpenweatherCurrent("object")
    /\ DOMAIN d.current = DOMAIN OpenMeteoCurrent("object")
    /\ \A f \in DOMAIN d.current : d.current[f] \in {"value", "null"}

\* C19: a weather reading has the same set of fields whichever provider
\* served it (every field of an OpenWeather reading is in an Open-Meteo
\* reading and the other way round), a field the payload lacks being null
\* and not left out.
C19_ProviderIndependentFields == ForWeatherResults(C19_FieldSet)

\* C21: the message _request returns for the request with identifier id is
\* the server message whose id is that identifier, in whatever order the
\* server writes responses and notifications (the k-th call of _request in
\* main() uses req_id = k).
C21_MatchedById ==
    \A k \in 1..Len(replies) : replies[k].id = k

RECURSIVE Frames(_)
\* the bytes of a sequence of messages written one after the other
Frames(ms) ==
    IF Len(ms) = 0 THEN <<>> ELSE EncodeMessage(Head(ms)) \o Frames(Tail(ms))

\* C22: for every message p, _encode_message(p) is a header announcing N
\* followed by exactly N bytes, the N bytes being the body, and
\* _read_message on a stream holding it returns p and leaves nothing; the
\* messages the server wrote are read back one by one in the order written,
\* each read consuming exactly one message.  (The first conjunct does not
\* depend on the state; it is evaluated while nothing has been written.)
C22_FramingRoundTrip ==
    /\ sent = <<>> =>
          \A p \in Payloads :
             LET e == EncodeMessage(p)
                 h == ReadHeaders(e, NoHeaders)
             IN  /\ h.tag = "ok"
                 /\ h.headers.known
                 /\ ParseInt(h.headers.length) = Len(h.rest)
                 /\ h.rest = Utf8Encode(JsonDumps(p))
                 /\ ReadMessage(e) = [tag |-> "ok", msg |-> p, rest |-> <<>>]
    /\ Len(replies) <= Len(sent)
    /\ \A k \in 1..Len(replies) : replies[k] = sent[k]
    /\ stdout = Frames(SubSeq(sent, Len(replies) + 1, Len(sent)))

\* two messages were waiting in the stream, the first with a two-byte
\* character and a two-digit length, and both have been read back
C22_Witness ==
    /\ Len(replies) >= 2
    /\ \E k \in 1..(Len(replies) - 1) :
          /\ replies[k] = sent[k]
          /\ replies[k].text = <<"e_acute", "e_acute", "e_acute">>
          /\ replies[k + 1] = sent[k + 1]
          /\ replies[k + 1].id # replies[k].id
    /\ Len(sent) > Len(replies)
    /\ stdout # <<>>

NominatimLast == lastOutcome["Nominatim"]

\* the geocoder answered 2xx with JSON in which the handler finds no result:
\* for search an empty list or no list at all, for reverse an empty object
\* or no object at all
EmptyGeocoderAnswer ==
    /\ JsonReply(NominatimLast)
    /\ \/ /\ op = "geocodeLocation"
          /\ NominatimLast.body \in {"empty_array", "object", "empty_object",
                                      "bad_object"}
       \/ /\ op = "reverseGeocode"
          /\ NominatimLast.body \in {"empty_object", "array", "empty_array",
                                      "bad_array"}

\* C23: when the geocoder answers successfully with an empty or
\* unexpected-typed result, that answer is not retried (it is the last
\* request of the call, and the only one when it was the first attempt),
\* geocode_location returns a document with count 0 and reverse_geocode a
\* not_found document, and no canonical error is raised.
C23_EmptyResultNotRetried ==
    /\ [](EmptyGeocoderAnswer =>
            /\ pc \in {"geo_ret", "rev_ret", "done"}
            /\ reqCount["Nominatim"] = Len(sleeps) + 1
            /\ sleeps = <<>> => reqCount["Nominatim"] = 1
            /\ ret.tag = "ok"
            /\ pc = "done" =>
                  /\ outcome.state = "returned"
                  /\ op = "geocodeLocation" =>
                        /\ outcome.val.count = 0
                        /\ outcome.val.locations = <<>>
                        /\ "error" \notin DOMAIN outcome.val
                  /\ op = "reverseGeocode" =>
                        /\ DOMAIN outcome.val = {"error", "message"}
                        /\ outcome.val.error = "not_found")
    /\ [][EmptyGeocoderAnswer =>
            reqCount'["Nominatim"] <= reqCount["Nominatim"]]_vars

C23_Witness ==
    /\ EmptyGeocoderAnswer
    /\ op = "geocodeLocation"
    /\ NominatimLast.body = "object"
    /\ reqCount["Nominatim"] = 1
    /\ pc = "done"
    /\ outcome.state = "returned"
    /\ outcome.val.count = 0

\* C24: when the OpenWeather call fails with timeout_error or
\* network_error, Open-Meteo is queried only after OpenWeather has been
\* attempted max_retries + 1 times (3 with the configured ceiling of 2), and
\* no OpenWeather attempt is made once Open-Meteo has been queried.
C24_RetryPrecedesFallback ==
    /\ []((/\ reqCount["Open-Meteo"] >= 1
           /\ OwLast.type \in {"timeout", "network"}) =>
             /\ reqCount["OpenWeather"] = max_retries + 1
             /\ max_retries = DefaultMaxRetries => reqCount["OpenWeather"] = 3)
    /\ [][reqCount'["OpenWeather"] > reqCount["OpenWeather"] =>
            /\ reqCount["Open-Meteo"] = 0
            /\ reqCount'["Open-Meteo"] = 0]_vars

C24_Witness ==
    /\ op = "getWeather"
    /\ max_retries = DefaultMaxRetries
    /\ OwLast.type = "network"
    /\ reqCount["OpenWeather"] = 3
    /\ reqCount["Open-Meteo"] = 1
    /\ pc = "done"

\* the requests of the weather lookup of this operation
WeatherRequests == reqCount["OpenWeather"] + reqCount["Open-Meteo"]

\* C25: in one weather lookup Open-Meteo receives at most one HTTP attempt,
\* also when that attempt fails with timeout_error or network_error (its
\* get never sleeps), so the lookup issues at most (max_retries + 1) + 1
\* requests, 4 with the configured ceiling of 2.
C25_SecondaryNotRetried ==
    /\ reqCount["Open-Meteo"] <= 1
    /\ provider = "Open-Meteo" => sleeps = <<>> /\ attempt = 0
    /\ (OmLast.type \in {"timeout", "network"}) =>
          pc \in {"om_ret", "weather_ret", "done"}
    /\ WeatherRequests <= (max_retries + 1) + 1
    /\ max_retries = DefaultMaxRetries => WeatherRequests <= 4

C25_Witness ==
    /\ op = "getWeather"
    /\ max_retries = DefaultMaxRetries
    /\ OmLast.type = "timeout"
    /\ reqCount["Open-Meteo"] = 1
    /\ WeatherRequests = 4
    /\ pc = "done"
    /\ outcome.state = "raised"

\* the weather lookup of this operation is over
WeatherLookupOver ==
    \/ pc = "weather_ret"
    \/ op = "getWeather" /\ pc = "done"
    \/ op = "getParkContext" /\ "OpenWeather" \in called
          /\ pc \in {"build_air_quality", "av_ret", "done"}
    \/ op = "getParkContext" /\ provider = "AirVisual" /\ pc = "http"

\* what the weather lookup of this operation ended with
WeatherLookupResult ==
    IF pc = "weather_ret" THEN ret
    ELSE IF op = "getWeather"
    THEN (CASE outcome.state = "raised" -> Raise(outcome.val)
            [] outcome.state = "returned" /\ "source" \in DOMAIN outcome.val
                 -> Ok(outcome.val)
            [] OTHER -> Exc)
    ELSE IF "source" \in DOMAIN weather THEN Ok(weather)
    ELSE IF outcome.state = "raised" THEN Raise(outcome.val)
    ELSE Exc

\* C26: every weather lookup ends, after at most (max_retries + 1) + 1
\* provider attempts, in exactly one of two ways: Done, a result with
\* provenance, or Failed, a canonical error; this for every combination of
\* provider outcomes.
C26_DoneOrFailed ==
    WeatherLookupOver =>
       /\ WeatherRequests <= (max_retries + 1) + 1
       /\ LET r == WeatherLookupResult
          IN  \/ /\ r.tag = "ok"
                 /\ r.val.source.provider \in {"OpenWeather", "Open-Meteo"}
                 /\ r.val.source.fallback \in BOOLEAN
              \/ /\ r.tag = "err"
                 /\ r.val.kind \in ErrorKinds

\* the number a raw coordinate value stands for
NumberOf(value) == IF value = "37" THEN 37 ELSE 0

\* the coordinates of the park handed back by get_park_details
ParkCoordinates ==
    <<NumberOf(park_details.val.location.latitude),
      NumberOf(park_details.val.location.longitude)>>

WeatherPhase ==
    \/ pc \in {"build_weather", "ow_ret", "om_ret", "weather_ret"}
    \/ pc = "http" /\ provider \in {"OpenWeather", "Open-Meteo"}

AirQualityPhase ==
    \/ pc \in {"build_air_quality", "av_ret"}
    \/ pc = "http" /\ provider = "AirVisual"

\* C27: in get_park_context the weather lookup starts only after park
\* details have been returned and the air-quality lookup only after the
\* weather lookup has handed back its result; both lookups work on the
\* parsed latitude and longitude of the park details, which are also the
\* location of the composite.
C27_OrderAndCoordinates ==
    op = "getParkContext" =>
       /\ (WeatherPhase \/ AirQualityPhase
              \/ called \cap {"OpenWeather", "Open-Meteo", "AirVisual"} # {}) =>
             /\ "parkDetails" \in called
             /\ park_details.tag = "ok"
             /\ "location" \in DOMAIN park_details.val
             /\ coords = ParkCoordinates
       /\ pc = "park_details" => called = {}
       /\ WeatherPhase => "AirVisual" \notin called /\ reqCount["AirVisual"] = 0
       /\ (AirQualityPhase \/ "AirVisual" \in called) =>
             /\ ~WeatherPhase
             /\ "source" \in DOMAIN weather
             /\ weather.location = ParkCoordinates
       /\ (pc = "done" /\ outcome.state = "returned"
              /\ "airQuality" \in DOMAIN outcome.val) =>
             /\ outcome.val.location = ParkCoordinates
             /\ outcome.val.weather.location = ParkCoordinates
             /\ "location" \in DOMAIN outcome.val.airQuality =>
                   outcome.val.airQuality.location = ParkCoordinates

C27_Witness ==
    /\ op = "getParkContext"
    /\ pc = "done"
    /\ outcome.state = "returned"
    /\ "airQuality" \in DOMAIN outcome.val
    /\ "location" \in DOMAIN outcome.val.airQuality
    /\ outcome.val.location = <<37, 0>>
    /\ outcome.val.airQuality.location = <<37, 0>>
    /\ outcome.val.weather.source.provider = "Open-Meteo"

\* the labels of the requested unit system
C28_Labels(d) ==
    /\ units = "metric" =>
          d.units = [temperature |-> "C", windSpeed |-> "m/s"]
    /\ units = "imperial" =>
          d.units = [temperature |-> "F", windSpeed |-> "mph"]

\* C28: the units labels of every weather result name the requested unit
\* system (metric: C and m/s, imperial: F and mph), whichever provider
\* served it and also when the Open-Meteo payload has no current_units.
C28_UnitLabels == ForWeatherResults(C28_Labels)

\* get has classified a non-2xx reply of the provider
HttpErrorReply ==
    /\ GetReturned
    /\ lastOutcome[provider].type = "response"
    /\ lastOutcome[provider].status \notin 200..299

\* the error carries the truncated response text
HasResponseText(e) == \E d \in e.details : d[1] = "response_text"

RECURSIVE Sum(_)
Sum(seq) == IF seq = <<>> THEN 0 ELSE Head(seq) + Sum(Tail(seq))

\* C30: within one provider call the retry sleeps add up to at most
\* max_retries * max_delay (with max_retries = 2 at most 2 * 30, in fact
\* 1 + 2 = 3); nothing is slept before the first attempt, and every sleep
\* is followed by another attempt, so none comes after the final one.
C30_SleepBudget ==
    /\ [](/\ Sum(sleeps) <= max_retries * max_delay
          /\ Len(sleeps) <= max_retries
          /\ max_retries = DefaultMaxRetries =>
                /\ Sum(sleeps) <= 2 * 30
                /\ Sum(sleeps) <= 1 + 2
          /\ (provider \in Providers /\ reqCount[provider] = 0) =>
                sleeps = <<>>
          /\ sleeps # <<>> => Len(sleeps) <= reqCount[provider]
          /\ (GetReturned /\ ~RetryEnabled(provider)) => sleeps = <<>>
          /\ GetReturned => Len(sleeps) = reqCount[provider] - 1)
    /\ [][(sleeps' # sleeps /\ sleeps' # <<>>) =>
            /\ pc = "http"
            /\ pc' = "http"
            /\ Len(sleeps') = Len(sleeps) + 1
            /\ reqCount'[provider] = reqCount[provider] + 1
            /\ Len(sleeps') = reqCount'[provider]]_vars

C30_Witness ==
    /\ GetReturned
    /\ max_retries = DefaultMaxRetries
    /\ sleeps = <<1, 2>>
    /\ reqCount[provider] = 3
    /\ ret.tag = "err"

\* a weather lookup is under way
InWeatherLookup == op \in {"getWeather", "getParkContext"}

\* the state of a call that has not asked any provider yet
FreshCall ==
    /\ called \cap Providers = {}
    /\ attempt = 0
    /\ sleeps = <<>>
    /\ reqCount = [p \in Providers |-> 0]
    /\ lastOutcome = [p \in Providers |-> NoOutcome]
    /\ request = [p \in Providers |-> NoRequest]
    /\ owError = NoError
    /\ omError = NoError

\* C31: whatever the earlier calls did, a new weather lookup starts with no
\* provider asked, asks OpenWeather first with its attempt count at 0 and
\* gives it its full max_retries + 1 attempts on transient failures; the
\* client handles are all that a new call inherits.
C31_NoPerCallState ==
    /\ [](InWeatherLookup =>
            /\ pc = "build_weather" => FreshCall
            /\ "Open-Meteo" \in called => "OpenWeather" \in called
            /\ reqCount["Open-Meteo"] >= 1 =>
                  \/ ~ow_key /\ reqCount["OpenWeather"] = 0
                  \/ ow_key /\ reqCount["OpenWeather"] >= 1
            /\ (pc = "http" /\ provider = "OpenWeather") =>
                  attempt = reqCount["OpenWeather"]
            /\ (pc = "ow_ret" /\ ret.tag = "err"
                   /\ ret.val.kind \in {"timeout_error", "network_error"}) =>
                  reqCount["OpenWeather"] = max_retries + 1)
    /\ [][(pc \in {"idle", "done"} /\ pc' \notin {"idle", "done"}) =>
            /\ FreshCall'
            /\ ret' = NoRet
            /\ weather' = NoDoc
            /\ outcome' = Running
            /\ UNCHANGED <<config, singletons>>]_vars
    /\ [][(InWeatherLookup /\ pc = "build_weather") =>
            /\ called' = called \cup {"OpenWeather"}
            /\ reqCount' = reqCount
            /\ ow_key => /\ pc' = "http"
                         /\ provider' = "OpenWeather"
                         /\ attempt' = 0]_vars

C31_Witness ==
    /\ op = "getWeather"
    /\ pc = "build_weather"
    /\ clients["weather"] # NoClient
    /\ clients["air_quality"] # NoClient
    /\ FreshCall

\* reverse_geocode is over
ReverseDone == op = "reverseGeocode" /\ pc = "done"

\* the geocoder answered reverse_geocode with 2xx JSON that is empty or no
\* object
EmptyReverseAnswer ==
    /\ NominatimLast.type = "response"
    /\ NominatimLast.status \in 200..299
    /\ NominatimLast.body \in {"empty_object", "array", "empty_array",
                                "bad_array"}

\* C32: reverse_geocode returns the not_found document (error, message)
\* exactly when the geocoder call succeeded with an empty or non-object
\* result; a transport failure raises its canonical error instead.
C32_NotFoundIffEmpty ==
    ReverseDone =>
       /\ (outcome.state = "returned" /\ "error" \in DOMAIN outcome.val
              /\ outcome.val.error = "not_found") <=> EmptyReverseAnswer
       /\ EmptyReverseAnswer =>
             /\ outcome = Returned(NotFound)
             /\ DOMAIN outcome.val = {"error", "message"}
             /\ response = Returned(NotFound)
       /\ ret.tag = "err" =>
             /\ outcome = Raised(ret.val)
             /\ ret.val.kind \in ErrorKinds
       /\ (NominatimLast.type # "response"
              \/ NominatimLast.status \notin 200..299
              \/ NominatimLast.body = "not_json") =>
             /\ ret.tag = "err"
             /\ outcome.state = "raised"

C32_Witness ==
    /\ ReverseDone
    /\ NominatimLast.type = "response"
    /\ NominatimLast.body = "array"
    /\ outcome = Returned(NotFound)

\* geocode_location is over
GeocodeDone == op = "geocodeLocation" /\ pc = "done"

\* the number of hits in a 2xx answer of the geocoder
Hits(body) == IF body \in {"array", "bad_array"} THEN 1 ELSE 0

\* C33: geocode_location returns one normalized location per geocoder hit,
\* in the order received, and count equals the number of entries of
\* locations (0 for an empty result).
C33_OneLocationPerHit ==
    (GeocodeDone /\ ret.tag = "ok") =>
       /\ outcome.state = "returned"
       /\ DOMAIN outcome.val = {"count", "locations", "source"}
       /\ Len(outcome.val.locations) = Hits(NominatimLast.body)
       /\ outcome.val.count = Len(outcome.val.locations)
       /\ \A i \in 1..Len(outcome.val.locations) :
             outcome.val.locations[i] = "hit"

\* C34: without an OpenWeather key a weather lookup sends nothing to
\* OpenWeather, takes the missing_api_key error as the failure of the
\* primary and asks Open-Meteo; an Open-Meteo result carries fallback =
\* true, and missing_api_key is never what the lookup hands back when
\* Open-Meteo answered.
C34_MissingKeyFallsBack ==
    (InWeatherLookup /\ ~ow_key) =>
       /\ reqCount["OpenWeather"] = 0
       /\ request["OpenWeather"] = NoRequest
       /\ lastOutcome["OpenWeather"] = NoOutcome
       /\ pc = "ow_ret" => ret = Raise(MissingKey("OpenWeather"))
       /\ "Open-Meteo" \in called =>
             /\ owError = MissingKey("OpenWeather")
             /\ request["Open-Meteo"] = OpenMeteoParams(units)
       /\ WeatherLookupOver =>
             /\ reqCount["Open-Meteo"] = 1
             /\ LET r == WeatherLookupResult
                IN  /\ r.tag = "ok" =>
                          /\ r.val.source.provider = "Open-Meteo"
                          /\ r.val.source.fallback = TRUE
                    /\ r.tag = "err" =>
                          /\ r.val.kind # "missing_api_key"
                          /\ ~JsonReply(OmLast)
                    /\ (JsonReply(OmLast) /\ IsObject(OmLast.body)) =>
                          r.tag = "ok"

C34_Witness ==
    /\ op = "getWeather"
    /\ pc = "done"
    /\ ~ow_key
    /\ reqCount["OpenWeather"] = 0
    /\ reqCount["Open-Meteo"] = 1
    /\ owError.kind = "missing_api_key"
    /\ outcome.state = "returned"
    /\ "source" \in DOMAIN outcome.val
    /\ outcome.val.source.fallback = TRUE

\* OpenWeather answered 2xx with JSON that is no object
OpenweatherUnreadable == JsonReply(OwLast) /\ ~IsObject(OwLast.body)

\* C35: only a canonical error of the OpenWeather call triggers the
\* fallback: when OpenWeather answers 2xx with JSON that normalization
\* cannot process, Open-Meteo is not asked and get_weather returns a
\* generic error document, not a weather reading.
C35_FallbackOnlyOnCanonicalError ==
    InWeatherLookup =>
       /\ "Open-Meteo" \in called =>
             /\ owError.kind \in ErrorKinds
             /\ ~JsonReply(OwLast)
       /\ (OpenweatherUnreadable /\ pc # "http") =>
             /\ "Open-Meteo" \notin called
             /\ reqCount["Open-Meteo"] = 0
             /\ pc = "weather_ret" => ret = Exc
             /\ (op = "getWeather" /\ pc = "done") =>
                   /\ outcome = Returned(GenericError("getWeather"))
                   /\ response = Returned(GenericError("getWeather"))
                   /\ "source" \notin DOMAIN outcome.val

C35_Witness ==
    /\ op = "getWeather"
    /\ pc = "done"
    /\ OwLast.type = "response"
    /\ OwLast.status = 200
    /\ OwLast.body = "array"
    /\ reqCount["Open-Meteo"] = 0
    /\ outcome = Returned(GenericError("getWeather"))

\* a handler has finished
HandlerDone ==
    /\ pc = "done"
    /\ op \in {"getWeather", "getAirQuality", "getParkContext",
                "geocodeLocation", "reverseGeocode"}

\* C36: a handler lets only a canonical NPSAPIError escape, unchanged; any
\* other exception raised inside it comes back as a generic error document,
\* which in get_park_context replaces the whole composite.
C36_OnlyCanonicalEscapes ==
    HandlerDone =>
       /\ outcome.state \in {"returned", "raised"}
       /\ outcome.state = "raised" =>
             /\ outcome.val.kind \in ErrorKinds
             /\ ret.tag = "err" => outcome.val = ret.val
       /\ ret = Exc =>
             /\ outcome = Returned(GenericError(op))
             /\ "park" \notin DOMAIN outcome.val

\* get_park_context has the answer of get_park_details
ParkDetailsOver == op = "getParkContext" /\ "parkDetails" \in called

\* get_park_context returned the context_error document
ContextErrorReturned ==
    /\ pc = "done"
    /\ outcome.state = "returned"
    /\ "error" \in DOMAIN outcome.val
    /\ outcome.val.error = "context_error"

\* get_park_context went on to the weather lookup
LookupsStarted == pc = "build_weather" \/ "OpenWeather" \in called

\* C38: get_park_context returns context_error if and only if park details
\* succeeded and the latitude or longitude of its location is absent, null
\* or not a number; a coordinate of 0 is present, so a park at latitude 0 or
\* longitude 0 goes on to the weather and air-quality lookups.
C38_ContextErrorIff ==
    ParkDetailsOver =>
       /\ \A value \in RawLatitudes \cup RawLongitudes :
             ParseCoordinate(value).some <=> value \notin UnusableCoordinates
       /\ ParseCoordinate("0") = Some(0)
       /\ ContextErrorReturned <=> ParkWithoutCoordinates
       /\ ContextErrorReturned => outcome.val = ContextError
       /\ LookupsStarted <=>
             /\ park_details.tag = "ok"
             /\ "location" \in DOMAIN park_details.val
             /\ park_details.val.location.latitude \in {"37", "0"}
             /\ park_details.val.location.longitude \in {"37", "0"}
       /\ LookupsStarted => coords = ParkCoordinates
       /\ (LookupsStarted /\ park_details.val.location.latitude = "0") =>
             coords[1] = 0
       /\ (LookupsStarted /\ park_details.val.location.longitude = "0") =>
             coords[2] = 0

C38_Witness ==
    /\ ParkDetailsOver
    /\ park_details.tag = "ok"
    /\ "location" \in DOMAIN park_details.val
    /\ park_details.val.location.latitude = "37"
    /\ park_details.val.location.longitude = "0"
    /\ pc = "done"
    /\ outcome.state = "returned"
    /\ "airQuality" \in DOMAIN outcome.val
    /\ outcome.val.location[2] = 0
    /\ "source" \in DOMAIN outcome.val.weather

\* C37: when two invocations running at the same time both make the first
\* use of a client accessor, at most one client is constructed and both
\* invocations get the same handle.
C37_OneClientUnderConcurrency ==
    /\ \A a \in Accessors : constructions[a] <= 1
    /\ \A t \in Threads, u \in Threads :
          (/\ threads[t].pc = "using"
           /\ threads[u].pc = "using"
           /\ threads[t].accessor = threads[u].accessor) =>
             threads[t].handle = threads[u].handle

====
